---- MODULE Spec2Model ----
(***************************************************************************)
(* A model of the Parameter class of src/src/parameter.py: the value a     *)
(* Parameter stores after construction, and its fetch, sample and change   *)
(* operations; and of the Sensitivity class of src/src/sensitivity.py: one *)
(* invocation of _sensitivity(ch), step by step, and one of _opt_pow(ch);  *)
(* and of the parameters of the Channel class of src/src/channel.py: its   *)
(* change_param, evaluate and param.                                       *)
(*                                                                         *)
(* Python values are tagged records of one uniform shape, so that any two  *)
(* of them can be compared.  A Python str is the sequence of its           *)
(* characters, so strip(), upper(), split() and the parsers float(), int() *)
(* and eval() are computed character by character.  Numbers are whole:     *)
(* the literals the model draws are whole numbers, written with or without *)
(* a trailing ".0".                                                        *)
(***************************************************************************)
EXTENDS Integers, Sequences, FiniteSets, TLC

VARIABLES
    status,      \* "unbuilt", "ok", "fatal" (log.err) or "raised" (uncaught exception)
    err,         \* what ended the construction, "" when it succeeded
    kind,        \* self._type
    inp,         \* the constructor's inp argument
    unit,        \* self.unit, as the factor to_SI multiplies by
    pmin,        \* self._min
    pmax,        \* self._max
    band_ids,    \* self._band_ids
    val,         \* self._val
    avg,         \* self._avg
    med,         \* self._med
    std,         \* self._std
    mult_bands,  \* self._mult_bands: "unset", "true" or "false"
    changed,     \* whether change has been called since construction
    last,        \* the last public call: its name, arguments and outcome
    ch,          \* the channel a Sensitivity method is called with
    sens,        \* the fields of the Sensitivity object (self)
    pc,          \* how many steps of _sensitivity(ch) have completed
    chan         \* the fields of the Channel object, and the last call made on it

\* the state of the Parameter
pvars == <<status, err, kind, inp, unit, pmin, pmax, band_ids, val, avg, med,
           std, mult_bands, changed, last>>

\* the state of the Sensitivity and its channel
svars == <<ch, sens, pc>>

\* the state of the Channel
cvars == <<chan>>

vars == <<pvars, svars, cvars>>

(***************************************************************************)
(* Bounds of the model.                                                    *)
(***************************************************************************)
\* band_id arguments range over 1..MaxBand
MaxBand == 2
\* nsample arguments range over 1..MaxSample
MaxSample == 2

(***************************************************************************)
(* Python values.                                                          *)
(***************************************************************************)
V(t, n, a, s, l) == [t |-> t, n |-> n, a |-> a, s |-> s, l |-> l]

NoneV == V("none", 0, <<>>, <<>>, <<>>)
\* a float (Python float or numpy.float64)
Num(n) == V("num", n, <<>>, <<>>, <<>>)
\* a Python int
Int_(n) == V("int", n, <<>>, <<>>, <<>>)
BoolV(b) == V("bool", IF b THEN 1 ELSE 0, <<>>, <<>>, <<>>)
\* a str, as the sequence of its characters
Str(s) == V("str", 0, <<>>, s, <<>>)
\* a numpy array of floats
Arr(a) == V("arr", 0, a, <<>>, <<>>)
\* a src.distribution.Distribution object, by its identity
DistV(d) == V("dist", d, <<>>, <<>>, <<>>)
\* a Python list of values
ListV(l) == V("list", 0, <<>>, <<>>, l)
\* an uncaught Python exception, by the name of its class; log.err is "fatal"
Exc(name) == V("exc", 0, <<>>, <<name>>, <<>>)

IsExc(v) == v.t = "exc"
IsNumber(v) == v.t \in {"num", "int"}

(***************************************************************************)
(* Python str operations, on sequences of characters.                      *)
(***************************************************************************)
UpperChar(c) ==
    CASE c = "a" -> "A" [] c = "b" -> "B" [] c = "c" -> "C" [] c = "d" -> "D"
      [] c = "e" -> "E" [] c = "f" -> "F" [] c = "g" -> "G" [] c = "h" -> "H"
      [] c = "i" -> "I" [] c = "j" -> "J" [] c = "k" -> "K" [] c = "l" -> "L"
      [] c = "m" -> "M" [] c = "n" -> "N" [] c = "o" -> "O" [] c = "p" -> "P"
      [] c = "q" -> "Q" [] c = "r" -> "R" [] c = "s" -> "S" [] c = "t" -> "T"
      [] c = "u" -> "U" [] c = "v" -> "V" [] c = "w" -> "W" [] c = "x" -> "X"
      [] c = "y" -> "Y" [] c = "z" -> "Z"
      [] OTHER -> c

LowerChar(c) ==
    CASE c = "A" -> "a" [] c = "B" -> "b" [] c = "C" -> "c" [] c = "D" -> "d"
      [] c = "E" -> "e" [] c = "F" -> "f" [] c = "G" -> "g" [] c = "H" -> "h"
      [] c = "I" -> "i" [] c = "J" -> "j" [] c = "K" -> "k" [] c = "L" -> "l"
      [] c = "M" -> "m" [] c = "N" -> "n" [] c = "O" -> "o" [] c = "P" -> "p"
      [] c = "Q" -> "q" [] c = "R" -> "r" [] c = "S" -> "s" [] c = "T" -> "t"
      [] c = "U" -> "u" [] c = "V" -> "v" [] c = "W" -> "w" [] c = "X" -> "x"
      [] c = "Y" -> "y" [] c = "Z" -> "z"
      [] OTHER -> c

Letters == {"a", "b", "c", "d", "e", "f", "g", "h", "i", "j", "k", "l", "m",
            "n", "o", "p", "q", "r", "s", "t", "u", "v", "w", "x", "y", "z",
            "A", "B", "C", "D", "E", "F", "G", "H", "I", "J", "K", "L", "M",
            "N", "O", "P", "Q", "R", "S", "T", "U", "V", "W", "X", "Y", "Z"}

Digits == {"0", "1", "2", "3", "4", "5", "6", "7", "8", "9"}

\* str.upper()
Upper(s) == [i \in 1..Len(s) |-> UpperChar(s[i])]

\* str.lower()
Lower(s) == [i \in 1..Len(s) |-> LowerChar(s[i])]

\* str.capitalize(): the first character upper-cased, the rest lower-cased
Capitalize(s) ==
    [i \in 1..Len(s) |-> IF i = 1 THEN UpperChar(s[i]) ELSE LowerChar(s[i])]

\* str.strip()
Strip(s) ==
    LET ns == {i \in 1..Len(s) : s[i] # " "}
    IN  IF ns = {} THEN <<>>
        ELSE LET lo == CHOOSE i \in ns : \A j \in ns : i <= j
                 hi == CHOOSE i \in ns : \A j \in ns : j <= i
             IN  SubSeq(s, lo, hi)

\* str.find(sub) + 1: the place of the first occurrence of sub in s, 0 if none
Find(s, sub) ==
    LET at == {i \in 1..(Len(s) - Len(sub) + 1) :
                  SubSeq(s, i, i + Len(sub) - 1) = sub}
    IN  IF at = {} THEN 0 ELSE CHOOSE i \in at : \A j \in at : i <= j

\* sub in s
Contains(s, sub) == Find(s, sub) # 0

\* s.split(d), d not empty
RECURSIVE Split(_, _)
Split(s, d) ==
    LET i == Find(s, d)
    IN  IF i = 0 THEN <<s>>
        ELSE <<SubSeq(s, 1, i - 1)>> \o Split(SubSeq(s, i + Len(d), Len(s)), d)

DigitVal(c) ==
    CASE c = "0" -> 0 [] c = "1" -> 1 [] c = "2" -> 2 [] c = "3" -> 3
      [] c = "4" -> 4 [] c = "5" -> 5 [] c = "6" -> 6 [] c = "7" -> 7
      [] c = "8" -> 8 [] c = "9" -> 9

IsDigits(s) == Len(s) > 0 /\ \A i \in 1..Len(s) : s[i] \in Digits

RECURSIVE DigitsVal(_)
DigitsVal(s) ==
    IF Len(s) = 0 THEN 0
    ELSE 10 * DigitsVal(SubSeq(s, 1, Len(s) - 1)) + DigitVal(s[Len(s)])

\* the text of a whole-number literal without its sign: digits, optionally
\* followed by "." and zeros; IsWhole tells the form, IntPart holds the value
IntPart(s) ==
    LET i == Find(s, <<".">>) IN IF i = 0 THEN s ELSE SubSeq(s, 1, i - 1)

IsWhole(s) ==
    LET i == Find(s, <<".">>)
    IN  IF i = 0 THEN IsDigits(s)
        ELSE /\ IsDigits(SubSeq(s, 1, i - 1))
             /\ \A j \in (i + 1)..Len(s) : s[j] = "0"

Unsigned(s) == IF Len(s) > 0 /\ s[1] = "-" THEN Tail(s) ELSE s

SignOf(s) == IF Len(s) > 0 /\ s[1] = "-" THEN -1 ELSE 1

\* float(s) of a str: surrounding blanks are ignored; ValueError otherwise
PyFloat(s) ==
    LET t == Strip(s)
    IN  IF IsWhole(Unsigned(t))
        THEN Num(SignOf(t) * DigitsVal(IntPart(Unsigned(t))))
        ELSE Exc("ValueError")

\* int(s) of a str: no decimal point is accepted
PyInt(s) ==
    LET t == Strip(s)
    IN  IF IsDigits(Unsigned(t))
        THEN Int_(SignOf(t) * DigitsVal(Unsigned(t)))
        ELSE Exc("ValueError")

IsName(s) == Len(s) > 0 /\ \A i \in 1..Len(s) : s[i] \in Letters

\* eval of one atom: a number, or a name, which env (a sequence of
\* <<name, value>>) binds or which raises NameError
EvalAtom(s, env) ==
    LET t == Strip(s)
    IN  IF IsDigits(Unsigned(t)) THEN Int_(SignOf(t) * DigitsVal(Unsigned(t)))
        ELSE IF IsWhole(Unsigned(t))
        THEN Num(SignOf(t) * DigitsVal(IntPart(Unsigned(t))))
        ELSE IF IsName(t)
        THEN IF \E k \in 1..Len(env) : env[k][1] = t
             THEN env[CHOOSE k \in 1..Len(env) : env[k][1] = t][2]
             ELSE Exc("NameError")
        ELSE Exc("SyntaxError")

\* the items of a list display, each evaluated
EvalItems(inner, env) ==
    IF Strip(inner) = <<>> THEN <<>>
    ELSE [i \in 1..Len(Split(inner, <<",">>)) |->
             EvalAtom(Split(inner, <<",">>)[i], env)]

\* the list of the items, or the exception the first item that raises one raises
ListOrExc(items) ==
    IF \E i \in 1..Len(items) : IsExc(items[i])
    THEN items[CHOOSE i \in 1..Len(items) :
                 /\ IsExc(items[i])
                 /\ \A j \in 1..(i - 1) : ~IsExc(items[j])]
    ELSE ListV(items)

\* eval of a str without blanks around: an atom, or a list display of atoms
EvalStripped(t, env) ==
    IF Len(t) >= 2 /\ t[1] = "[" /\ t[Len(t)] = "]"
    THEN ListOrExc(EvalItems(SubSeq(t, 2, Len(t) - 1), env))
    ELSE EvalAtom(t, env)

\* eval(s, env)
PyEval(s, env) == EvalStripped(Strip(s), env)

(***************************************************************************)
(* The collaborators of Parameter whose code is outside this repository's  *)
(* files: the log, the unit and the distributions.                         *)
(***************************************************************************)
\* log.err(msg): the fault is fatal, the run ends
LogErr == Exc("fatal")

\* unit.to_SI(x) with the unit's factor u: a scalar or an array times u
to_SI(x, u) ==
    IF x.t = "arr" THEN Arr([i \in 1..Len(x.a) |-> x.a[i] * u])
    ELSE Num(x.n * u)

\* the Distribution objects a caller may pass
Dists == {1, 2}
\* Distribution.mean(), .median(), .std()
DistMean(d) == IF d = 1 THEN Num(6) ELSE Num(9)
DistMedian(d) == IF d = 1 THEN Num(7) ELSE Num(8)
DistStd(d) == IF d = 1 THEN Num(2) ELSE Num(1)
\* the values Distribution.sample may draw
DistSupport(d) == IF d = 1 THEN {5, 7} ELSE {8, 10}

(***************************************************************************)
(* Numeric helpers of Parameter.                                           *)
(***************************************************************************)
Abs(n) == IF n < 0 THEN -n ELSE n

RECURSIVE Pow10(_)
Pow10(k) == IF k <= 0 THEN 1 ELSE 10 * Pow10(k - 1)

\* int(floor(log10(n))) + 1 for n > 0: the number of digits of n
RECURSIVE NumDigits(_)
NumDigits(n) == IF n < 10 THEN 1 ELSE 1 + NumDigits(n \div 10)

\* round(n, nd) of a whole number: itself for nd >= 0, and for nd < 0 the
\* nearest multiple of 10^-nd, a tie going to the even multiple
PyRound(n, nd) ==
    IF nd >= 0 THEN n
    ELSE LET p == Pow10(-nd)
             m == Abs(n)
             q == m \div p
             r == m % p
             up == \/ 2 * r > p
                   \/ 2 * r = p /\ q % 2 = 1
             sgn == IF n < 0 THEN -1 ELSE 1
         IN  sgn * (IF up THEN q + 1 ELSE q) * p

\* Parameter._sig_figs(inp, sig) of a number, as a whole number
SigFigsNum(n, sig) ==
    IF n = 0 THEN 0 ELSE PyRound(n, sig - (NumDigits(Abs(n)) - 1) - 1)

\* Parameter._sig_figs(inp, sig): None and str have no abs(); the truth value
\* of "inp == 0" is ambiguous for an array of several elements
_sig_figs(x, sig) ==
    CASE IsNumber(x) -> Num(SigFigsNum(x.n, sig))
      [] x.t = "arr" /\ Len(x.a) = 1 -> Num(SigFigsNum(x.a[1], sig))
      [] x.t = "arr" /\ Len(x.a) > 1 -> Exc("ValueError")
      [] OTHER -> Exc("TypeError")

\* Parameter._zero(val): zeros of the length of val, 0. when val has no len()
_zero(x) ==
    CASE x.t = "arr" -> Arr([i \in 1..Len(x.a) |-> 0])
      [] x.t = "str" -> Arr([i \in 1..Len(x.s) |-> 0])
      [] x.t = "list" -> Arr([i \in 1..Len(x.l) |-> 0])
      [] OTHER -> Num(0)

\* the strings a float Parameter accepts in place of a number
NA == <<"N", "A">>
BAND == <<"B", "A", "N", "D">>
float_str_vals == {NA, BAND}
spread_delim == <<"+", "/", "-">>

\* the outcome of _float: the value r (or the exception) and _mult_bands
FloatRes(r, mb) == [r |-> r, mb |-> mb]

AllNumbers(l) == \A i \in 1..Len(l) : IsNumber(l[i])

\* Parameter._float(val) for a str: f is float(val), e is eval(val) and ret
\* is str(val).strip().upper()
_float_str(f, e, ret, u) ==
    IF ~IsExc(f) THEN FloatRes(to_SI(f, u), "false")
    ELSE IF e.t = "list" /\ AllNumbers(e.l)
    THEN FloatRes(to_SI(Arr([i \in 1..Len(e.l) |-> e.l[i].n]), u), "true")
    ELSE IF ret \in float_str_vals THEN FloatRes(Str(ret), "false")
    ELSE FloatRes(LogErr, "false")

\* Parameter._float(val)
_float(x, u) ==
    IF x.t = "none" THEN FloatRes(NoneV, "false")
    ELSE IF IsNumber(x) THEN FloatRes(to_SI(x, u), "false")
    ELSE _float_str(PyFloat(x.s), PyEval(x.s, <<>>), Upper(Strip(x.s)), u)

(***************************************************************************)
(* What the constructor stores.  St is the Parameter's fields after        *)
(* _store_param, with e the exception that ended it ("" when none did).    *)
(***************************************************************************)
St(v, a, m, s, mb, e) == [val |-> v, avg |-> a, med |-> m, std |-> s, mb |-> mb, e |-> e]

Failed(x) == St(NoneV, NoneV, NoneV, NoneV, "unset", x.s[1])

\* Parameter._store_bool(inp)
_store_bool(x) ==
    LET v == Strip(Capitalize(Lower(x.s)))
    IN  IF v # <<"T", "r", "u", "e">> /\ v # <<"F", "a", "l", "s", "e">>
        THEN Failed(LogErr)
        ELSE St(BoolV(v = <<"T", "r", "u", "e">>), NoneV, NoneV, NoneV, "false", "")

\* Parameter._store_int(inp)
_store_int(x) ==
    LET i == PyInt(x.s)
    IN  IF IsExc(i) THEN Failed(LogErr)
        ELSE St(NoneV, i, i, Num(0), "false", "")

\* Parameter._store_str(inp)
_store_str(x) == St(Str(x.s), NoneV, NoneV, NoneV, "false", "")

\* Parameter._store_list(inp)
_store_list(x) ==
    LET v == PyEval(x.s, <<>>)
    IN  IF IsExc(v) THEN Failed(v)
        ELSE IF v.t # "list" THEN Failed(LogErr)
        ELSE St(v, NoneV, NoneV, NoneV, "false", "")

\* _store_float_str, the branch for a spread: a and s are what _float returned
\* for the two parts, the second call being the last to set _mult_bands
StoreSpread(a, s) ==
    IF IsExc(a.r) THEN Failed(a.r)
    ELSE IF IsExc(s.r) THEN Failed(s.r)
    ELSE St(NoneV, a.r, a.r, s.r, s.mb, "")

\* _store_float_str, the branch without a spread
StorePlain(a) ==
    IF IsExc(a.r) THEN Failed(a.r)
    ELSE St(NoneV, a.r, a.r, _zero(a.r), a.mb, "")

\* Parameter._store_float_str(inp): lit is the str, u the unit's factor
_store_float_str(lit, u) ==
    IF Contains(lit, spread_delim)
    THEN StoreSpread(_float(Str(Split(lit, spread_delim)[1]), u),
                     _float(Str(Split(lit, spread_delim)[2]), u))
    ELSE StorePlain(_float(Str(lit), u))

\* Parameter._store_float_dist(inp): d is the Distribution
_store_float_dist(d, u) ==
    St(DistV(d), _float(DistMean(d), u).r, _float(DistMedian(d), u).r,
       _float(DistStd(d), u).r, "false", "")

PDF == <<"P", "D", "F">>
ALL == <<"A", "L", "L">>
\* the globals eval is given in _store_float_tuple
pdf_conv_dict == << <<PDF, Str(PDF)>> >>

\* str(x) of a number is its digits: it holds no letter
StrHasPDF(x) == x.t = "str" /\ Contains(Upper(x.s), PDF)

\* dist_dict[key]: the place of key among the dictionary's keys, 0 for KeyError
Lookup(kv, key) ==
    IF \E k \in 1..Len(kv) : kv[k][1] = key
    THEN CHOOSE k \in 1..Len(kv) : kv[k][1] = key
    ELSE 0

\* float(x) of a value already evaluated
FloatOf(x) ==
    CASE IsNumber(x) -> Num(x.n)
      [] x.t = "str" -> PyFloat(x.s)
      [] OTHER -> Exc("TypeError")

\* the turn of that loop for a mean value without PDF: a is float(mv) and s
\* is float(sv)
PlainEntry(a, s) ==
    IF IsExc(a) THEN [e |-> a.s[1]]
    ELSE IF IsExc(s) THEN [e |-> s.s[1]]
    ELSE [e |-> "", v |-> NoneV, a |-> a, m |-> a, s |-> s]

\* one turn of the loop of _store_float_tuple over the mean values: what is
\* appended to _val, _avg, _med and _std, or the exception that ends it
TupleEntry(mv, sv, i, dict, bids) ==
    IF StrHasPDF(mv)
    THEN IF ~bids.set THEN [e |-> "fatal"]
         ELSE IF i > Len(bids.ids) THEN [e |-> "IndexError"]
         ELSE LET k == Lookup(dict.kv, Upper(bids.ids[i]))
              IN  IF k = 0 THEN [e |-> "fatal"]
                  ELSE LET d == dict.kv[k][2]
                       IN  [e |-> "", v |-> DistV(d), a |-> DistMean(d),
                            m |-> DistMedian(d), s |-> DistStd(d)]
    ELSE PlainEntry(FloatOf(mv), FloatOf(sv))

\* _store_float_tuple, after the loop over the mean values: ent is what each
\* turn appended, and the first turn that raised ends the loop
StoreEntries(ent) ==
    IF \E i \in 1..Len(ent) : ent[i].e # ""
    THEN Failed(Exc(ent[CHOOSE i \in 1..Len(ent) :
                          /\ ent[i].e # ""
                          /\ \A j \in 1..(i - 1) : ent[j].e = ""].e))
    ELSE St(ListV([i \in 1..Len(ent) |-> ent[i].v]),
            Arr([i \in 1..Len(ent) |-> ent[i].a.n]),
            Arr([i \in 1..Len(ent) |-> ent[i].m.n]),
            Arr([i \in 1..Len(ent) |-> ent[i].s.n]), "true", "")

\* _store_float_tuple with a dictionary, once mean_val and std_val are
\* evaluated
StoreTuple(mean_val, std_val, dict, bids) ==
    IF IsExc(mean_val) THEN Failed(mean_val)
    ELSE IF IsExc(std_val) THEN Failed(std_val)
    ELSE IF mean_val.t = "list"
    THEN IF std_val.t # "none" /\ std_val.t # "list" THEN Failed(LogErr)
         ELSE IF std_val.t # "none" /\ Len(mean_val.l) # Len(std_val.l)
         THEN Failed(LogErr)
         ELSE StoreEntries([i \in 1..Len(mean_val.l) |->
                              TupleEntry(mean_val.l[i],
                                         IF std_val.t # "none" THEN std_val.l[i]
                                         ELSE Num(0),
                                         i, dict, bids)])
    ELSE IF mean_val.t = "str"
    THEN IF Contains(Upper(mean_val.s), PDF)
         THEN LET k == Lookup(dict.kv, ALL)
              IN  IF k = 0 THEN Failed(Exc("UnboundLocalError"))
                  ELSE LET d == dict.kv[k][2]
                       IN  St(DistV(d), DistMean(d), DistMedian(d),
                              DistStd(d), "false", "")
         ELSE Failed(Exc("TypeError"))
    ELSE IF IsNumber(mean_val)
    THEN IF std_val.t # "none"
         THEN IF std_val.t # "num" THEN Failed(LogErr)
              ELSE St(NoneV, mean_val, mean_val, std_val, "unset", "")
         ELSE St(NoneV, mean_val, mean_val, Num(0), "unset", "")
    ELSE Failed(LogErr)

\* Parameter._store_float_tuple(inp): inp = (lit, dict)
_store_float_tuple(lit, dict, bids, u) ==
    IF ~dict.set THEN _store_float_str(lit, u)
    ELSE IF Contains(lit, spread_delim)
    THEN StoreTuple(PyEval(Split(lit, spread_delim)[1], pdf_conv_dict),
                    PyEval(Split(lit, spread_delim)[2], pdf_conv_dict), dict, bids)
    ELSE StoreTuple(PyEval(lit, pdf_conv_dict), NoneV, dict, bids)

\* Parameter._store_float(inp)
_store_float(x, bids, u) ==
    CASE x.form = "str" -> _store_float_str(x.lit, u)
      [] x.form = "dist" -> _store_float_dist(x.dist, u)
      [] x.form = "tuple" -> _store_float_tuple(x.lit, x.dict, bids, u)
      [] OTHER -> Failed(LogErr)

\* Parameter._store_param(inp): k is self._type
_store_param(k, x, bids, u) ==
    CASE k = "bool" -> _store_bool(Str(x.lit))
      [] k = "int" -> _store_int(Str(x.lit))
      [] k = "float" -> _store_float(x, bids, u)
      [] k = "str" -> _store_str(Str(x.lit))
      [] k = "list" -> _store_list(Str(x.lit))
      [] OTHER -> Failed(LogErr)

\* the numbers _check_range compares: numpy.array(self._avg)
Elements(x) ==
    CASE IsNumber(x) -> {x.n}
      [] x.t = "arr" -> {x.a[i] : i \in 1..Len(x.a)}
      [] OTHER -> {}

\* _check_range without its branch for the maximum
_check_range_min_only(a, lo, hi) ==
    IF a.t = "none" \/ a.t = "str" THEN TRUE
    ELSE IF lo.t # "none" /\ \E n \in Elements(a) : n < lo.n THEN FALSE
    ELSE TRUE

\* Parameter._check_range(): TRUE when it returns, FALSE when it ends in log.err
_check_range(a, lo, hi) ==
    IF a.t = "none" \/ a.t = "str" THEN TRUE
    ELSE IF lo.t # "none" /\ \E n \in Elements(a) : n < lo.n THEN FALSE
    ELSE IF hi.t # "none" /\ \E n \in Elements(a) : n > hi.n THEN FALSE
    ELSE TRUE

(***************************************************************************)
(* The public methods, as functions of the Parameter's fields.  P is the   *)
(* record of the fields a method reads.                                    *)
(***************************************************************************)
Self == [val |-> val, avg |-> avg, med |-> med, std |-> std, mb |-> mult_bands,
         lo |-> pmin, hi |-> pmax, u |-> unit]

\* x[i - 1] of Python for the 1-based place i: an array's or a str's element;
\* a number and None cannot be indexed
Index(x, i) ==
    CASE x.t = "arr" -> IF i <= Len(x.a) THEN Num(x.a[i]) ELSE Exc("IndexError")
      [] x.t = "str" -> IF i <= Len(x.s) THEN Str(<<x.s[i]>>) ELSE Exc("IndexError")
      [] OTHER -> Exc("TypeError")

\* the first exception among the values of a sequence, else the sequence
FirstExc(seq) ==
    IF \E i \in 1..Len(seq) : IsExc(seq[i])
    THEN <<seq[CHOOSE i \in 1..Len(seq) :
                 IsExc(seq[i]) /\ \A j \in 1..(i - 1) : ~IsExc(seq[j])]>>
    ELSE seq

\* fetch testing the value for truth where the code tests it against None
fetch_truthy(P, band_id) ==
    IF P.val.t # "none" /\ P.val # BoolV(FALSE) /\ P.val # ListV(<<>>)
       /\ P.avg.t = "none"
    THEN <<P.val, P.val, Str(NA)>>
    ELSE IF P.mb = "unset" THEN <<Exc("AttributeError")>>
    ELSE IF P.mb = "true"
    THEN FirstExc(<<Index(P.avg, band_id), Index(P.med, band_id),
                    Index(P.std, band_id)>>)
    ELSE <<P.avg, P.med, P.std>>

\* Parameter.fetch(band_id): the triple returned, or <<the exception>>
fetch(P, band_id) ==
    IF P.val.t # "none" /\ P.avg.t = "none" THEN <<P.val, P.val, Str(NA)>>
    ELSE IF P.mb = "unset" THEN <<Exc("AttributeError")>>
    ELSE IF P.mb = "true"
    THEN FirstExc(<<Index(P.avg, band_id), Index(P.med, band_id),
                    Index(P.std, band_id)>>)
    ELSE <<P.avg, P.med, P.std>>

\* str(x).upper() in self._float_str_vals
IsSentinel(x) == x.t = "str" /\ Upper(x.s) \in float_str_vals

\* Parameter._is_empty(band_id): a bool, or the exception
_is_empty(P, band_id) ==
    IF P.mb = "unset" THEN Exc("AttributeError")
    ELSE IF P.mb = "true"
    THEN LET e == Index(P.avg, band_id)
         IN  IF IsExc(e) THEN e ELSE BoolV(IsSentinel(e))
    ELSE BoolV(IsSentinel(P.avg))

\* the test of sample with < where the code has <=
StdNegative(s) ==
    CASE IsNumber(s) -> BoolV(s.n < 0)
      [] s.t = "arr" -> BoolV(\E i \in 1..Len(s.a) : s.a[i] < 0)
      [] OTHER -> Exc("TypeError")

\* numpy.any(std <= 0.): a bool, or TypeError for a str or None
StdNotPositive(s) ==
    CASE IsNumber(s) -> BoolV(s.n <= 0)
      [] s.t = "arr" -> BoolV(\E i \in 1..Len(s.a) : s.a[i] <= 0)
      [] OTHER -> Exc("TypeError")

\* the deviations from the mean numpy.random.normal may draw
Deviates == {-4, 4}

\* whether numpy broadcasts x to nsample values
Broadcasts(x, nsample) ==
    \/ IsNumber(x)
    \/ x.t = "arr" /\ Len(x.a) \in {1, nsample}

Component(x, i) ==
    IF IsNumber(x) THEN x.n ELSE IF Len(x.a) = 1 THEN x.a[1] ELSE x.a[i]

\* numpy.random.normal(mean, sd, nsample), dev the deviations drawn
Normal(mean, sd, nsample, dev) ==
    IF ~(Broadcasts(mean, nsample) /\ Broadcasts(sd, nsample))
    THEN Exc(IF mean.t \in {"str", "none"} THEN "TypeError" ELSE "ValueError")
    ELSE Arr([i \in 1..nsample |-> Component(mean, i) + dev[i]])

\* the end of sample: the sampled value checked against min and max
Clamp(samp, lo, hi) ==
    IF lo.t # "none" /\ samp.t = "arr" THEN Exc("ValueError")
    ELSE IF lo.t # "none" /\ samp.n < lo.n THEN lo
    ELSE IF hi.t # "none" /\ samp.t = "arr" THEN Exc("ValueError")
    ELSE IF hi.t # "none" /\ samp.n > hi.n THEN hi
    ELSE samp

\* Parameter.sample(band_id, nsample, min, max, null): dev are the deviations
\* the gaussian draws, pick the values a Distribution draws
sample(P, band_id, nsample, amin, amax, null, dev, pick) ==
    LET lo == IF amin.t = "none" THEN P.lo ELSE amin
        hi == IF amax.t = "none" THEN P.hi ELSE amax
        empty == _is_empty(P, 1)
    IN  IF IsExc(empty) THEN empty
        ELSE IF empty.n = 1 THEN Str(Upper(Strip(P.avg.s)))
        ELSE IF P.val.t = "dist"
        THEN IF nsample = 1 THEN Num(pick[1])
             ELSE Arr([i \in 1..nsample |-> pick[i]])
        ELSE LET vals == fetch(P, band_id)
             IN  IF Len(vals) = 1 THEN vals[1]
                 ELSE LET literalNA == P.val.t # "none" /\ P.avg.t = "none"
                          le == StdNotPositive(vals[3])
                      IN  IF literalNA THEN vals[1]
                          ELSE IF IsExc(le) THEN le
                          ELSE IF le.n = 1 THEN vals[1]
                          ELSE LET mean == IF null THEN Num(0) ELSE vals[1]
                                   draw == Normal(mean, vals[3], nsample, dev)
                               IN  IF IsExc(draw) THEN draw
                                   ELSE Clamp(IF nsample = 1 THEN Num(draw.a[1])
                                              ELSE draw, lo, hi)

\* x with the element at the 1-based place i replaced by the number n
SetIndex(x, i, n) == Arr([x.a EXCEPT ![i] = n])

\* the outcome of change: the fields it leaves and what it returns or raises
Chg(a, s, ret) == [avg |-> a, std |-> s, ret |-> ret]

\* Parameter.change, the branch for a str
change_str(P, new_avg, band_id) ==
    IF P.mb = "unset" THEN Chg(P.avg, P.std, Exc("AttributeError"))
    ELSE IF P.mb = "true"
    THEN LET e == Index(P.avg, band_id)
         IN  IF IsExc(e) THEN Chg(P.avg, P.std, e)
             ELSE IF e.t # "str" THEN Chg(P.avg, P.std, Exc("AttributeError"))
             ELSE IF Upper(e.s) # Upper(new_avg.s)
             THEN Chg(P.avg, P.std, Exc("TypeError"))
             ELSE Chg(P.avg, P.std, BoolV(FALSE))
    ELSE IF P.avg.t # "str" THEN Chg(P.avg, P.std, Exc("AttributeError"))
    ELSE IF Upper(P.avg.s) # Upper(new_avg.s)
    THEN Chg(new_avg, P.std, BoolV(TRUE))
    ELSE Chg(P.avg, P.std, BoolV(FALSE))

\* the number of significant figures change compares to
SigFigs == 5

\* the comparison of change without the rounding to significant figures
DifferExact(cur, new) ==
    IF IsExc(cur) THEN cur
    ELSE IF ~IsNumber(cur) THEN Exc("TypeError")
    ELSE BoolV(new.n # cur.n)

\* Parameter.change, the comparison of one new value with the stored one, in a
\* slot that is not empty: cur is the stored value (the band's element when
\* multi-band), new the value in SI units.  differ is a bool or the exception.
Differ(cur, new) ==
    LET s1 == _sig_figs(new, SigFigs)
        s2 == _sig_figs(cur, SigFigs)
    IN  IF IsExc(cur) THEN cur
        ELSE IF IsExc(s1) THEN s1
        ELSE IF IsExc(s2) THEN s2
        ELSE BoolV(s1.n # s2.n)

\* Parameter.change, the branch for a float on a slot that is not empty: da
\* and ds are the two comparisons, avg1 and std1 the fields with the new
\* values set
Commit(P, given, da, ds, avg1, std1) ==
    IF IsExc(da) THEN Chg(P.avg, P.std, da)
    ELSE IF ~given THEN Chg(IF da.n = 1 THEN avg1 ELSE P.avg, P.std, BoolV(da.n = 1))
    ELSE IF IsExc(ds) THEN Chg(IF da.n = 1 THEN avg1 ELSE P.avg, P.std, ds)
    ELSE Chg(IF da.n = 1 THEN avg1 ELSE P.avg,
             IF ds.n = 1 THEN std1 ELSE P.std,
             BoolV(da.n = 1 \/ ds.n = 1))

\* Parameter.change, the branch for a float, once avg_new and std_new are in
\* SI units: empty is what _is_empty returned
change_to(P, avg_new, std_new, given, band_id, empty) ==
    IF IsExc(empty) THEN Chg(P.avg, P.std, empty)
    ELSE IF empty.n = 1
    THEN Chg(IF P.mb = "true" THEN SetIndex(P.avg, band_id, avg_new.n) ELSE avg_new,
             P.std, BoolV(TRUE))
    ELSE IF P.mb = "true"
    THEN Commit(P, given,
                Differ(Index(P.avg, band_id), avg_new),
                Differ(Index(P.std, band_id), std_new),
                SetIndex(P.avg, band_id, avg_new.n),
                SetIndex(P.std, band_id, std_new.n))
    ELSE Commit(P, given, Differ(P.avg, avg_new), Differ(P.std, std_new),
                avg_new, std_new)

\* Parameter.change, the branch for a float
change_float(P, new_avg, new_std, band_id) ==
    change_to(P, to_SI(new_avg, P.u), to_SI(new_std, P.u), new_std.t # "none",
              band_id, _is_empty(P, band_id))

\* Parameter.change(new_avg, new_std, band_id)
change(P, new_avg, new_std, band_id) ==
    CASE new_avg.t = "str" -> change_str(P, new_avg, band_id)
      [] new_avg.t = "num" -> change_float(P, new_avg, new_std, band_id)
      [] OTHER -> Chg(P.avg, P.std, LogErr)

(***************************************************************************)
(* The arguments the model draws.                                          *)
(***************************************************************************)
\* the constructor's inp: a str, a Distribution, or a tuple (str, dict)
InpStr(l) == [form |-> "str", lit |-> l, dist |-> 0, dict |-> [set |-> FALSE, kv |-> <<>>]]
InpDist(d) == [form |-> "dist", lit |-> <<>>, dist |-> d, dict |-> [set |-> FALSE, kv |-> <<>>]]
InpTuple(l, dd) == [form |-> "tuple", lit |-> l, dist |-> 0, dict |-> dd]

NoDict == [set |-> FALSE, kv |-> <<>>]
Dict(kv) == [set |-> TRUE, kv |-> kv]
NoBands == [set |-> FALSE, ids |-> <<>>]
Bands(ids) == [set |-> TRUE, ids |-> ids]

FloatLiterals ==
    {<<"7">>,
     <<"4">>,
     <<"9">>,
     <<"7", ".", "0">>,
     <<" ", "n", "a", " ">>,
     <<"N", "A">>,
     <<"N", "a", " ">>,
     <<"b", "a", "n", "d">>,
     <<"7", "+", "/", "-", "2">>,
     <<"7", "+", "/", "-", "N", "A">>,
     <<"7", "+", "/", "-", "[", "1", ",", "2", "]">>,
     <<"N", "A", "+", "/", "-", "[", "1", ",", "2", "]">>,
     <<"N", "A", "+", "/", "-", "3">>,
     <<"[", "6", ",", "7", "]">>,
     <<"[", "4", ",", "9", "]">>,
     <<"[", "6", ",", "7", "]", "+", "/", "-", "[", "1", ",", "2", "]">>,
     <<"[", "6", ",", "7", "]", "+", "/", "-", "[", "1", "]">>,
     <<"[", "6", ",", "7", "]", "+", "/", "-", "3">>,
     <<"b", "a", "d">>,
     <<"P", "D", "F">>}

\* literals holding the PDF marker, and literals for a tuple without it
PDFLiterals ==
    {<<"[", "P", "D", "F", ",", "7", "]">>,
     <<"[", "7", ",", "P", "D", "F", "]", "+", "/", "-", "[", "1", ",", "2", "]">>,
     <<"P", "D", "F">>,
     <<"[", "p", "d", "f", ",", "7", "]">>}

TupleLiterals ==
    {<<"[", "6", ",", "7", "]", "+", "/", "-", "[", "1", "]">>,
     <<"[", "6", ",", "7", "]", "+", "/", "-", "3">>,
     <<"7">>,
     <<"7", ".", "0", "+", "/", "-", "2", ".", "0">>,
     <<"7", "+", "/", "-", "2">>,
     <<"N", "A">>,
     <<"[", "6", ",", "7", "]", "+", "/", "-", "[", "1", ",", "2", "]">>,
     <<"7", "+", "/", "-", "[", "1", ",", "2", "]">>}

Dicts ==
    {NoDict,
     Dict(<< <<<<"B", "1">>, 1>>, <<<<"B", "2">>, 2>> >>),
     Dict(<< <<<<"b", "1">>, 1>>, <<<<"b", "2">>, 2>> >>),
     Dict(<< <<ALL, 2>> >>)}

PlainDicts == {NoDict, Dict(<< <<<<"B", "1">>, 1>>, <<<<"B", "2">>, 2>> >>)}

BandIds ==
    {NoBands,
     Bands(<< <<"b", "1">>, <<"B", "2">> >>),
     Bands(<< <<"B", "1">> >>)}

IntLiterals == {<<"7">>, <<" ", "4">>, <<"7", ".", "0">>, <<"1", "2">>}
BoolLiterals == {<<"t", "r", "u", "e">>, <<"F", "A", "L", "S", "E">>, <<"7">>}
StrLiterals == {<<"N", "A">>, <<"D", "u", "x">>}
ListLiterals == {<<"[", "7", ",", "9", "]">>, <<"[", "]">>, <<"7">>, <<"b", "a", "d">>}

\* (self._type, inp, band_ids) of the constructions drawn
Constructions ==
    ({"float"} \X {InpStr(l) : l \in FloatLiterals} \X {NoBands})
    \cup ({"float"} \X {InpDist(d) : d \in Dists} \X {NoBands})
    \cup ({"float"} \X {InpTuple(l, dd) : l \in PDFLiterals, dd \in Dicts} \X BandIds)
    \cup ({"float"} \X {InpTuple(l, dd) : l \in TupleLiterals, dd \in PlainDicts}
          \X {NoBands})
    \cup ({"float", "other"} \X {[form |-> "other", lit |-> <<>>, dist |-> 0, dict |-> NoDict]}
          \X {NoBands})
    \cup ({"int"} \X {InpStr(l) : l \in IntLiterals} \X {NoBands})
    \cup ({"bool"} \X {InpStr(l) : l \in BoolLiterals} \X {NoBands})
    \cup ({"str"} \X {InpStr(l) : l \in StrLiterals} \X {NoBands})
    \cup ({"list"} \X {InpStr(l) : l \in ListLiterals} \X {NoBands})

\* (the unit's factor, min, max) a Parameter is declared with
Declarations == {<<1, NoneV, NoneV>>, <<1, Num(5), Num(8)>>, <<10, Num(5), NoneV>>}

\* the arguments of sample and change
SampleMins == {NoneV, Num(6)}
SampleMaxs == {NoneV, Num(8)}
ChangeAvgs ==
    {Str(<<"n", "a">>), Str(<<"b", "a", "n", "d">>),
     Num(123456), Num(123457), Int_(7), NoneV}
ChangeStds == {NoneV, Num(2)}

(***************************************************************************)
(* The Sensitivity object and the channel it is called with.  A field of   *)
(* the object is a table, one row per observation and one entry per        *)
(* detector in a row; a field no step has assigned yet is the empty table. *)
(***************************************************************************)
\* a field of self that has not been assigned
Unset == <<>>

\* the Sensitivity object after __init__: no result field is assigned;
\* exc is the exception that ended the call, ret is what the call returned
Sensitivity ==
    [_popt_arr |-> Unset, _tel_eff_arr |-> Unset, _tel_rj_temp |-> Unset,
     _sky_rj_temp |-> Unset, _NEP_ph_arr |-> Unset, _NEP_ph_arr_corr |-> Unset,
     _NEP_bolo_arr |-> Unset, _NEP_read_arr |-> Unset, _NEP |-> Unset,
     _NEP_corr |-> Unset, _NET |-> Unset, _NET_corr |-> Unset,
     _NET_RJ |-> Unset, _NET_corr_RJ |-> Unset, _NET_arr |-> Unset,
     _NET_arr_RJ |-> Unset, _corr_deg |-> Unset, _map_depth |-> Unset,
     _map_depth_RJ |-> Unset, _pow_sky_side |-> Unset,
     _pow_det_side |-> Unset, _eff_det_side |-> Unset,
     exc |-> "", ret |-> <<>>]

\* no channel: the state of a run that calls no Sensitivity method
NoChannel ==
    [site |-> <<>>, infg |-> FALSE, corr |-> FALSE, nobs |-> 0, ndet |-> 0,
     bw |-> 0, optics |-> <<>>, dets |-> <<>>]

\* no Channel object: the state of a run that constructs none
NoChan == [status |-> "unbuilt"]

(***************************************************************************)
(* The state machine: one construction, then any sequence of public calls. *)
(***************************************************************************)
Call(op, band_id, nsample, amin, amax, null, new_avg, new_std, ret) ==
    [op |-> op, band_id |-> band_id, nsample |-> nsample, amin |-> amin,
     amax |-> amax, null |-> null, new_avg |-> new_avg, new_std |-> new_std,
     ret |-> ret]

NoCall == Call("none", 0, 0, NoneV, NoneV, FALSE, NoneV, NoneV, <<>>)

NoInp == [form |-> "none", lit |-> <<>>, dist |-> 0, dict |-> NoDict]

Init ==
    /\ status = "unbuilt"
    /\ err = ""
    /\ kind = "none"
    /\ inp = NoInp
    /\ unit = 1
    /\ pmin = NoneV
    /\ pmax = NoneV
    /\ band_ids = NoBands
    /\ val = NoneV
    /\ avg = NoneV
    /\ med = NoneV
    /\ std = NoneV
    /\ mult_bands = "unset"
    /\ changed = FALSE
    /\ last = NoCall
    /\ ch = NoChannel
    /\ sens = Sensitivity
    /\ pc = 0
    /\ chan = NoChan

\* a fetch or sample has returned and the caller has not taken the result yet
Pending == last.op \in {"fetch", "sample"}

\* the caller holds no result: a call of change may follow a call of change
\* at once, every other call follows the taking of the last result
Idle == last.op = "none"

\* the end of Parameter.__init__: st is what _store_param stored, and
\* _check_range follows when no fault ended it
Stored(st, lo, hi) ==
    /\ status' = IF st.e = "" /\ _check_range(st.avg, lo, hi) THEN "ok"
                 ELSE IF st.e \in {"", "fatal"} THEN "fatal"
                 ELSE "raised"
    /\ err' = IF st.e # "" THEN st.e
              ELSE IF _check_range(st.avg, lo, hi) THEN "" ELSE "range"
    /\ val' = st.val
    /\ avg' = st.avg
    /\ med' = st.med
    /\ std' = st.std
    /\ mult_bands' = st.mb

\* Parameter.__init__(log, inp, unit=, min=, max=, inp_type=, band_ids=)
Construct(k, x, bids, u, lo, hi) ==
    /\ status = "unbuilt"
    /\ Stored(_store_param(k, x, bids, u), lo, hi)
    /\ kind' = k
    /\ inp' = x
    /\ unit' = u
    /\ pmin' = lo
    /\ pmax' = hi
    /\ band_ids' = bids
    /\ UNCHANGED <<changed, last>>
    /\ UNCHANGED <<svars, cvars>>

\* a call of fetch(band_id)
Fetch(band_id) ==
    /\ status = "ok"
    /\ Idle
    /\ last' = Call("fetch", band_id, 0, NoneV, NoneV, FALSE, NoneV, NoneV,
                    fetch(Self, band_id))
    /\ UNCHANGED <<status, err, kind, inp, unit, pmin, pmax, band_ids, val, avg,
                   med, std, mult_bands, changed>>
    /\ UNCHANGED <<svars, cvars>>

\* a call of sample(band_id, nsample, min, max, null)
Sample(band_id, nsample, amin, amax, null, dev, pick) ==
    /\ status = "ok"
    /\ Idle
    /\ last' = Call("sample", band_id, nsample, amin, amax, null, NoneV, NoneV,
                    <<sample(Self, band_id, nsample, amin, amax, null, dev, pick)>>)
    /\ UNCHANGED <<status, err, kind, inp, unit, pmin, pmax, band_ids, val, avg,
                   med, std, mult_bands, changed>>
    /\ UNCHANGED <<svars, cvars>>

\* the end of a call of change: c is the fields it set and what it returned
Changed(new_avg, new_std, band_id, c) ==
    /\ avg' = c.avg
    /\ std' = c.std
    /\ status' = IF c.ret = LogErr THEN "fatal" ELSE status
    /\ err' = IF c.ret = LogErr THEN "change" ELSE err
    /\ last' = Call("change", band_id, 0, NoneV, NoneV, FALSE, new_avg,
                    new_std, <<c.ret>>)

\* a call of change(new_avg, new_std, band_id)
Change(new_avg, new_std, band_id) ==
    /\ status = "ok"
    /\ ~Pending
    /\ Changed(new_avg, new_std, band_id, change(Self, new_avg, new_std, band_id))
    /\ changed' = TRUE
    /\ UNCHANGED <<kind, inp, unit, pmin, pmax, band_ids, val, med, mult_bands>>
    /\ UNCHANGED <<svars, cvars>>

\* the caller takes the result of the last call
Return ==
    /\ ~Idle
    /\ last' = NoCall
    /\ UNCHANGED <<status, err, kind, inp, unit, pmin, pmax, band_ids, val, avg,
                   med, std, mult_bands, changed>>
    /\ UNCHANGED <<svars, cvars>>

\* the values a Distribution draws for the Parameter, when it holds one
Picks(nsample) ==
    IF val.t = "dist" THEN [1..nsample -> DistSupport(val.n)]
    ELSE {[i \in 1..nsample |-> 0]}

Next ==
    \/ \E c \in Constructions, d \in Declarations :
          Construct(c[1], c[2], c[3], d[1], d[2], d[3])
    \/ \E b \in 1..MaxBand : Fetch(b)
    \/ \E b \in 1..MaxBand, n \in 1..MaxSample, lo \in SampleMins,
          hi \in SampleMaxs, null \in BOOLEAN :
          \E dev \in [1..n -> Deviates], pick \in Picks(n) :
             Sample(b, n, lo, hi, null, dev, pick)
    \/ \E a \in ChangeAvgs, s \in ChangeStds, b \in 1..MaxBand : Change(a, s, b)
    \/ Return

Spec == Init /\ [][Next]_vars

(***************************************************************************)
(* Notions the claims are stated with.                                     *)
(***************************************************************************)
Built == status = "ok"

\* the constructor's inp is a plain str spelling NA in any case, blanks around
NALiteral == inp.form = "str" /\ Upper(Strip(inp.lit)) = NA

\* the constructor's inp is a plain str holding one number and no spread
ScalarLiteral == inp.form = "str" /\ ~IsExc(PyFloat(inp.lit))

Returned(c) == Len(c.ret) > 0 /\ ~IsExc(c.ret[1])

\* x rounded to sig significant figures: the multiple of the unit of its
\* sig-th figure that is nearest to it, the even one of two equally near
RoundSig(x, sig) ==
    IF x = 0 THEN 0
    ELSE LET m == Abs(x)
             d == CHOOSE k \in 1..12 : Pow10(k - 1) <= m /\ m < Pow10(k)
             p == Pow10(d - sig)
             below == (m \div p) * p
             above == below + p
             near == IF m - below < above - m THEN below
                     ELSE IF above - m < m - below THEN above
                     ELSE IF (below \div p) % 2 = 0 THEN below ELSE above
         IN  IF x < 0 THEN -near ELSE near

\* the numbers of a returned value
Numbers(x) ==
    CASE IsNumber(x) -> {x.n}
      [] x.t = "arr" -> {x.a[i] : i \in 1..Len(x.a)}
      [] OTHER -> {}

(***************************************************************************)
(* C1: a float Parameter constructed from a spelling of "NA", and not      *)
(* changed, returns "NA" from every sample call and "NA" in each of the    *)
(* three positions of every fetch call.                                    *)
(***************************************************************************)
C1_SentinelEverywhere ==
    (Built /\ kind = "float" /\ NALiteral /\ ~changed) =>
        /\ last.op = "sample" => last.ret = <<Str(NA)>>
        /\ last.op = "fetch" => last.ret = <<Str(NA), Str(NA), Str(NA)>>

(***************************************************************************)
(* C2: of two consecutive change calls with the same arguments, the first  *)
(* returns True exactly when the value differs from the stored one, and    *)
(* the second returns False and leaves average, median and std alone.      *)
(***************************************************************************)
\* new_avg (and new_std, when given) differ from what the Parameter stores
ValueDiffers(a, s, b) ==
    LET slotA == IF mult_bands = "true" THEN Index(avg, b) ELSE avg
        slotS == IF mult_bands = "true" THEN Index(std, b) ELSE std
    IN  IF a.t = "str" THEN ~(slotA.t = "str" /\ Upper(slotA.s) = Upper(a.s))
        ELSE \/ ~IsNumber(slotA)
             \/ RoundSig(a.n * unit, SigFigs) # RoundSig(slotA.n, SigFigs)
             \/ /\ s.t # "none"
                /\ \/ ~IsNumber(slotS)
                   \/ RoundSig(s.n * unit, SigFigs) # RoundSig(slotS.n, SigFigs)

\* a step that is a call of change: no other step leaves a change in last
ChangeStep == status = "ok" /\ ~Pending /\ last'.op = "change"

C2_ChangeIdempotent ==
    [][(ChangeStep /\ last'.new_avg.t \in {"str", "num"}) =>
          /\ Returned(last') =>
                last'.ret = <<BoolV(ValueDiffers(last'.new_avg, last'.new_std,
                                                 last'.band_id))>>
          /\ ( /\ last.op = "change" /\ Returned(last)
               /\ last.new_avg = last'.new_avg
               /\ last.new_std = last'.new_std
               /\ last.band_id = last'.band_id )
             => /\ last'.ret = <<BoolV(FALSE)>>
                /\ avg' = avg /\ med' = med /\ std' = std]_vars

(***************************************************************************)
(* C3: change with a float on a numeric slot commits to_SI(new_avg), and   *)
(* returns True, exactly when the new and the stored value differ at 5     *)
(* significant figures (new_std against the stored std alike); a sentinel  *)
(* slot always commits and returns True; when nothing differs the call     *)
(* returns False and average, median and std are unchanged.                *)
(***************************************************************************)
C3_Post(a, s, b) ==
    LET new == a.n * unit
        multi == mult_bands = "true"
        slotA == IF multi THEN Index(avg, b) ELSE avg
        slotS == IF multi THEN Index(std, b) ELSE std
        slotA1 == IF multi THEN Index(avg', b) ELSE avg'
        slotS1 == IF multi THEN Index(std', b) ELSE std'
        numeric == /\ mult_bands # "unset"
                   /\ IsNumber(slotA)
                   /\ s.t # "none" => IsNumber(slotS)
        sentinel == mult_bands = "false" /\ IsSentinel(avg)
        dA == RoundSig(new, SigFigs) # RoundSig(slotA.n, SigFigs)
        dS == s.t # "none" /\ RoundSig(s.n * unit, SigFigs) # RoundSig(slotS.n, SigFigs)
    IN  /\ numeric =>
            /\ last'.ret = <<BoolV(dA \/ dS)>>
            /\ slotA1 = IF dA THEN Num(new) ELSE slotA
            /\ dS => slotS1 = Num(s.n * unit)
            /\ (~dA /\ ~dS) => (avg' = avg /\ med' = med /\ std' = std)
        /\ sentinel =>
            /\ last'.ret = <<BoolV(TRUE)>>
            /\ avg' = Num(new)

C4_FatalOnlyForOtherTypes ==
    last.op = "change" =>
        (last.ret = <<LogErr>>) <=> (last.new_avg.t \notin {"str", "num", "int"})

(***************************************************************************)
(* C5: a float Parameter is constructed from a spread literal only when    *)
(* mean and std are both scalars or both lists of one length, for a plain  *)
(* str and for a tuple alike, so a per-band Parameter's average, median    *)
(* and std have one length and fetch(b) is a scalar triple for each band.  *)
(***************************************************************************)
IsScalar(x) == IsNumber(x) \/ x.t = "str"

SameShape(a, s) ==
    \/ IsScalar(a) /\ IsScalar(s)
    \/ a.t = "arr" /\ s.t = "arr" /\ Len(a.a) = Len(s.a)

C5_EqualLengths ==
    (Built /\ kind = "float" /\ inp.form \in {"str", "tuple"} /\ ~changed) =>
        /\ Contains(inp.lit, spread_delim) => SameShape(avg, std)
        /\ mult_bands = "true" => (SameShape(avg, std) /\ SameShape(avg, med))
        /\ (last.op = "fetch" /\ mult_bands = "true" /\ avg.t = "arr"
              /\ last.band_id <= Len(avg.a)) =>
              /\ Len(last.ret) = 3
              /\ \A i \in 1..3 : IsNumber(last.ret[i])

(***************************************************************************)
(* C6: once the value is stored, the construction ends in a fatal error    *)
(* exactly when the stored average is numeric and some element of it lies  *)
(* below the declared min or above the declared max, an absent bound being *)
(* no limit; sentinel, string, boolean and list values never cause it.     *)
(***************************************************************************)
OutOfRange ==
    \E n \in Numbers(avg) :
        \/ pmin.t # "none" /\ n < pmin.n
        \/ pmax.t # "none" /\ n > pmax.n

C6_RangeCheck ==
    (status # "unbuilt" /\ err \in {"", "range"} /\ ~changed) =>
        /\ (status = "fatal") <=> OutOfRange
        /\ (status = "fatal") <=> (err = "range")
        /\ (avg.t \in {"none", "str"}) => status = "ok"

\* a per-band vector with one element above max and none below min was refused
C6_Witness ==
    /\ status = "fatal"
    /\ err = "range"
    /\ avg.t = "arr"
    /\ pmin.t # "none" /\ pmax.t # "none"
    /\ \A i \in 1..Len(avg.a) : avg.a[i] >= pmin.n
    /\ \E i \in 1..Len(avg.a) : avg.a[i] > pmax.n

(***************************************************************************)
(* C7: for a Parameter of integer, string, list or boolean kind holding    *)
(* the value v, fetch(band_id) returns (v, v, "NA") for every band_id.     *)
(***************************************************************************)
\* the value the constructor's literal denotes, for the kinds without spread
Held ==
    CASE kind = "int" -> PyInt(inp.lit)
      [] kind = "str" -> Str(inp.lit)
      [] kind = "list" -> PyEval(inp.lit, <<>>)
      [] kind = "bool" -> BoolV(Lower(Strip(inp.lit)) = <<"t", "r", "u", "e">>)
      [] OTHER -> NoneV

C7_FetchValueNA ==
    (Built /\ kind \in {"int", "str", "list", "bool"} /\ ~changed /\ last.op = "fetch") =>
        last.ret = <<Held, Held, Str(NA)>>

(* C7, as amended: for string, list and boolean kinds fetch returns        *)
(* (v, v, "NA"); an integer Parameter constructed from v stores v as its   *)
(* average and fetch returns (v, v, 0.0) until change is called.           *)
C7_FetchByKind ==
    (Built /\ last.op = "fetch") =>
        /\ kind \in {"str", "list", "bool"} => last.ret = <<Held, Held, Str(NA)>>
        /\ (kind = "int" /\ ~changed) => last.ret = <<Held, Held, Num(0)>>

\* fetch on an integer Parameter, and fetch on a boolean one holding False
C7_Witness ==
    /\ Built
    /\ kind = "int"
    /\ last.op = "fetch"
    /\ last.band_id = MaxBand
    /\ last.ret = <<Int_(7), Int_(7), Num(0)>>

(***************************************************************************)
(* C8: for a numeric Parameter holding no Distribution, every value sample *)
(* returns lies in [lo, hi], lo and hi being the call's min and max when   *)
(* given and the Parameter's own otherwise, an absent bound being no limit.*)
(***************************************************************************)
C8_SampleWithinBounds ==
    ( /\ Built /\ ~changed /\ last.op = "sample" /\ Returned(last)
      /\ val.t = "none" /\ (IsNumber(avg) \/ avg.t = "arr") ) =>
        LET lo == IF last.amin.t = "none" THEN pmin ELSE last.amin
            hi == IF last.amax.t = "none" THEN pmax ELSE last.amax
        IN  \A n \in Numbers(last.ret[1]) :
                /\ lo.t # "none" => n >= lo.n
                /\ hi.t # "none" => n <= hi.n

AnyCase(kv, id) ==
    IF \E k \in 1..Len(kv) : Upper(kv[k][1]) = Upper(id)
    THEN CHOOSE k \in 1..Len(kv) : Upper(kv[k][1]) = Upper(id)
    ELSE 0

\* the mean values of the tuple's literal, as written
MeanPart == IF Contains(inp.lit, spread_delim)
            THEN Split(inp.lit, spread_delim)[1] ELSE inp.lit

MeanItems == PyEval(MeanPart, pdf_conv_dict)

\* the tuple's literal is a list with PDF entries and a band id for each entry
PDFList ==
    /\ MeanItems.t = "list"
    /\ \E i \in 1..Len(MeanItems.l) : StrHasPDF(MeanItems.l[i])
    /\ band_ids.set
    /\ Len(band_ids.ids) >= Len(MeanItems.l)

C10_PDFLookup ==
    ( /\ status # "unbuilt" /\ ~changed /\ kind = "float"
      /\ inp.form = "tuple" /\ inp.dict.set /\ err # "range" ) =>
        /\ PDFList =>
             IF \A i \in 1..Len(MeanItems.l) :
                    StrHasPDF(MeanItems.l[i]) => AnyCase(inp.dict.kv, band_ids.ids[i]) # 0
             THEN /\ Built
                  /\ \A i \in 1..Len(MeanItems.l) :
                        StrHasPDF(MeanItems.l[i]) =>
                           LET d == inp.dict.kv[AnyCase(inp.dict.kv, band_ids.ids[i])][2]
                           IN  /\ avg.a[i] = DistMean(d).n
                               /\ med.a[i] = DistMedian(d).n
                               /\ std.a[i] = DistStd(d).n
             ELSE status # "ok"
        /\ StrHasPDF(MeanItems) =>
             LET k == AnyCase(inp.dict.kv, ALL)
             IN  IF k = 0 THEN status # "ok"
                 ELSE /\ Built
                      /\ avg = DistMean(inp.dict.kv[k][2])
                      /\ med = DistMedian(inp.dict.kv[k][2])
                      /\ std = DistStd(inp.dict.kv[k][2])

(***************************************************************************)
(* The Sensitivity class of src/src/sensitivity.py.                        *)
(*                                                                         *)
(* Every spectrum is flat over the band and the band mask is 1 on it, so a *)
(* spectrum is the one number it holds at every frequency: a product or a  *)
(* sum of spectra is the product or the sum of their numbers, and          *)
(* numpy.trapz over the frequencies is that number times the bandwidth.    *)
(* Numbers are whole.  numpy.sqrt(n) is kept as the radicand n, so that    *)
(* squares and sums of squares are exact.                                  *)
(***************************************************************************)
\* numpy.sqrt(n), n a whole number
sqrt(n) == V("sqrt", n, <<>>, <<>>, <<>>)
\* x**2 for a float or a square root
Sq(x) == IF x.t = "sqrt" THEN x.n ELSE x.n * x.n
\* a value the model does not compute: the result of calling the
\* collaborator function f, or of the arithmetic operation f, on args
Apply(f, args) == V("call", 0, <<>>, <<f>>, args)
\* a parameter of the channel, camera, telescope or simulation whose value
\* no step of the model computes with
Param(name) == Apply("param", <<Str(<<name>>)>>)

RECURSIVE prod(_)
\* numpy.prod(x, axis=0)
prod(x) == IF x = <<>> THEN 1 ELSE Head(x) * prod(Tail(x))

RECURSIVE sum(_)
\* sum(x) and numpy.sum(x)
sum(x) == IF x = <<>> THEN 0 ELSE Head(x) + sum(Tail(x))

\* numpy.trapz(x, freqs) of a flat spectrum, bw = freqs[-1] - freqs[0]
trapz(x, bw) == x * bw

\* the Python slices x[n:] and x[:n]
From(x, n) == SubSeq(x, n + 1, Len(x))
Upto(x, n) == SubSeq(x, 1, IF n < Len(x) THEN n ELSE Len(x))

\* a table has one row per observation and one entry per detector in a row:
\* numpy.array([[... for j in range(self._ndet)] for i in range(self._nobs)])
\* is [i \in Rows(c) |-> [j \in Cols(c) |-> ...]]
Rows(c) == 1..c.nobs
Cols(c) == 1..c.ndet

(***************************************************************************)
(* The channel's element chain, sky to detector, for observation i and     *)
(* detector j: the elements of the observation, then the optics, then the  *)
(* detector.                                                               *)
(***************************************************************************)
Element(tran, emis, temp) == [tran |-> tran, emis |-> emis, temp |-> temp]

\* the sky elements of observation i: their transmissions differ from one
\* observation to the next
ObsElems(i) == <<Element(11 - 2 * i, 1, 3), Element(10 - 2 * i, 2, 1 + i)>>

\* the element of detector j
DetElem(j) == Element(12 - 2 * j, 1, 1)

\* ch.elem[i][j], with the emissivity, transmission and temperature of each
Chain(c, i, j) == ObsElems(i) \o c.optics \o <<DetElem(j)>>

\* ch.tran[i][j], ch.emis[i][j] and ch.temp[i][j]
tran(c, i, j) == [k \in 1..Len(Chain(c, i, j)) |-> Chain(c, i, j)[k].tran]
emis(c, i, j) == [k \in 1..Len(Chain(c, i, j)) |-> Chain(c, i, j)[k].emis]
temp(c, i, j) == [k \in 1..Len(Chain(c, i, j)) |-> Chain(c, i, j)[k].temp]

(***************************************************************************)
(* The Physics collaborator.                                               *)
(***************************************************************************)
\* phys.bb_pow_spec(freqs, temp, emis): the power spectrum of an element,
\* its emissivity times a function of its temperature
bb_pow_spec(t, e) == t * e

\* phys.rj_temp(opt_pow, bw, eff)
rj_temp(opt_pow, bw, eff) == Apply("rj_temp", <<Num(opt_pow), Num(bw), Num(eff)>>)

(***************************************************************************)
(* The helper methods of the optical chain.                                *)
(***************************************************************************)
\* _buffer_tran(tran, freqs): a terminal transmission of 1 is appended
_buffer_tran(tr) == Append(tr, 1)

\* _eff(tran, freqs)
_eff(tr, bw) == trapz(prod(_buffer_tran(tr)), bw) \div bw

\* _popt(elem, emis, tran, temp, freqs): nelem is len(elem)
_popt(nelem, em, tr, tm, bw) ==
    sum([i \in 1..nelem |->
            trapz(bb_pow_spec(tm[i], em[i] * prod(From(_buffer_tran(tr), i))),
                  bw)])

\* _rj_temp(elem, emis, tran, temp, freqs, eff)
_rj_temp(nelem, em, tr, tm, bw, eff) ==
    rj_temp(_popt(nelem, em, tr, tm, bw), bw, eff)

SPACE == <<"S", "P", "A", "C", "E">>

\* _num_sky_elem with the numbers of the two kinds of site exchanged
_num_sky_elem_exchanged(site, infg) ==
    IF Upper(site) = SPACE
    THEN IF infg THEN 4 ELSE 2
    ELSE IF infg THEN 3 ELSE 1

\* _num_sky_elem(ch), from the telescope's site and the simulation's infg
_num_sky_elem(site, infg) ==
    IF Upper(site) = SPACE
    THEN IF infg THEN 3 ELSE 1
    ELSE IF infg THEN 4 ELSE 2

(***************************************************************************)
(* The steps of _sensitivity(ch): each takes the fields s of self and the  *)
(* channel c, and gives the fields after it.                               *)
(***************************************************************************)
\* _calc_popt(ch)
_calc_popt(s, c) ==
    [s EXCEPT !._popt_arr =
        [i \in Rows(c) |-> [j \in Cols(c) |->
            Num(_popt(Len(Chain(c, i, j)), emis(c, i, j), tran(c, i, j),
                      temp(c, i, j), c.bw))]]]

\* the telescope efficiency of one observation and detector in _calc_rj_temp
tel_eff(c, i, j) == _eff(From(tran(c, i, j), _num_sky_elem(c.site, c.infg)), c.bw)

\* the number of elements the slices [n:] and [:n] of a chain of len keep
LenFrom(len, n) == IF n < len THEN len - n ELSE 0
LenUpto(len, n) == IF n < len THEN n ELSE len

\* _calc_rj_temp(ch)
_calc_rj_temp(s, c) ==
    [s EXCEPT
        !._tel_eff_arr = [i \in Rows(c) |-> [j \in Cols(c) |-> Num(tel_eff(c, i, j))]],
        !._tel_rj_temp =
            [i \in Rows(c) |-> [j \in Cols(c) |->
                _rj_temp(LenFrom(Len(Chain(c, i, j)), _num_sky_elem(c.site, c.infg)),
                         From(emis(c, i, j), _num_sky_elem(c.site, c.infg)),
                         From(tran(c, i, j), _num_sky_elem(c.site, c.infg)),
                         From(temp(c, i, j), _num_sky_elem(c.site, c.infg)),
                         c.bw, tel_eff(c, i, j))]],
        !._sky_rj_temp =
            [i \in Rows(c) |-> [j \in Cols(c) |->
                _rj_temp(LenUpto(Len(Chain(c, i, j)), _num_sky_elem(c.site, c.infg)),
                         Upto(emis(c, i, j), _num_sky_elem(c.site, c.infg)),
                         tran(c, i, j),
                         Upto(temp(c, i, j), _num_sky_elem(c.site, c.infg)),
                         c.bw, tel_eff(c, i, j))]]]

(***************************************************************************)
(* The Noise collaborator.  Its functions compute with numbers: handed a   *)
(* str they raise TypeError, as Python arithmetic on a str does.           *)
(***************************************************************************)
\* noise.G(psat, n, Tb, Tc): the thermal conductance
G(psat, n, tb, tc) ==
    IF \A x \in {psat, n, tb, tc} : IsNumber(x)
    THEN Num(psat.n * (n.n + 1) + tc.n - tb.n)
    ELSE Exc("TypeError")

\* noise.Flink(n, Tb, Tc): the link factor
Flink(n, tb, tc) ==
    IF \A x \in {n, tb, tc} : IsNumber(x)
    THEN Num(n.n + tb.n + tc.n)
    ELSE Exc("TypeError")

\* noise.bolo_NEP(flink, G, Tc): the bolometer NEP
bolo_NEP(flink, g, tc) ==
    IF \A x \in {flink, g, tc} : IsNumber(x)
    THEN sqrt(flink.n * g.n * tc.n * tc.n)
    ELSE Exc("TypeError")

\* noise.read_NEP(pelec, boloR, nei): the readout NEP
read_NEP(p_bias, bolo_r, nei) ==
    IF \A x \in {p_bias, bolo_r, nei} : IsNumber(x)
    THEN sqrt(bolo_r.n * p_bias.n * nei.n * nei.n)
    ELSE Exc("TypeError")

\* noise.photon_NEP(pow_ints, freqs[, elem, factor]): the photon NEP without
\* and with correlations; the two are identical when called without elem
photon_NEP(pow_ints, corrs) ==
    <<sqrt(sum(pow_ints)), sqrt((IF corrs THEN 2 ELSE 1) * sum(pow_ints))>>

(***************************************************************************)
(* The helper methods of the detector noise.                               *)
(***************************************************************************)
\* 'NA' in str(x)
HasNA(x) == x.t = "str" /\ Contains(x.s, NA)

\* a detector, by the values det.param(...) returns
Detector(g, psat, psat_fact, n, tb, tc, flink, nei, bolo_r, read_frac) ==
    [g |-> g, psat |-> psat, psat_fact |-> psat_fact, n |-> n, tb |-> tb,
     tc |-> tc, flink |-> flink, nei |-> nei, bolo_r |-> bolo_r,
     read_frac |-> read_frac]

\* _photon_NEP(elem, emis, tran, temp, freqs, ch): corrs is whether ch is
\* passed
_photon_NEP(nelem, em, tr, tm, corrs) ==
    photon_NEP([i \in 1..nelem |->
                   bb_pow_spec(tm[i], em[i] * prod(From(_buffer_tran(tr), i)))],
               corrs)

\* the thermal conductance _bolo_NEP(opt_pow, det) computes with
bolo_g(opt_pow, det) ==
    IF HasNA(det.g)
    THEN IF HasNA(det.psat)
         THEN G(Num(det.psat_fact.n * opt_pow), det.n, det.tb, det.tc)
         ELSE G(det.psat, det.n, det.tb, det.tc)
    ELSE det.g

\* _bolo_NEP(opt_pow, det)
_bolo_NEP(opt_pow, det) ==
    IF HasNA(det.flink)
    THEN bolo_NEP(Flink(det.n, det.tb, det.tc), bolo_g(opt_pow, det), det.tc)
    ELSE bolo_NEP(det.flink, bolo_g(opt_pow, det), det.tc)

\* _read_NEP with the bias power psat_fact * opt_pow when psat is not given
_read_NEP_fact(opt_pow, det) ==
    IF HasNA(det.nei) THEN Str(NA)
    ELSE IF HasNA(det.bolo_r) THEN Str(NA)
    ELSE IF HasNA(det.psat)
    THEN read_NEP(Num(det.psat_fact.n * opt_pow), det.bolo_r, det.nei)
    ELSE IF ~IsNumber(det.psat) THEN Exc("TypeError")
    ELSE IF opt_pow >= det.psat.n THEN Num(0)
    ELSE read_NEP(Num(det.psat.n - opt_pow), det.bolo_r, det.nei)

\* _read_NEP(opt_pow, det)
_read_NEP(opt_pow, det) ==
    IF HasNA(det.nei) THEN Str(NA)
    ELSE IF HasNA(det.bolo_r) THEN Str(NA)
    ELSE IF HasNA(det.psat)
    THEN read_NEP(Num((det.psat_fact.n - 1) * opt_pow), det.bolo_r, det.nei)
    ELSE IF ~IsNumber(det.psat) THEN Exc("TypeError")
    ELSE IF opt_pow >= det.psat.n THEN Num(0)
    ELSE read_NEP(Num(det.psat.n - opt_pow), det.bolo_r, det.nei)

\* the exception the first entry of a table raised while the table was
\* built, row by row, "" when none did
Raises(tab) ==
    IF \A i \in 1..Len(tab) : \A j \in 1..Len(tab[i]) : ~IsExc(tab[i][j])
    THEN ""
    ELSE LET i == CHOOSE r \in 1..Len(tab) :
                      /\ \E j \in 1..Len(tab[r]) : IsExc(tab[r][j])
                      /\ \A q \in 1..(r - 1) : \A j \in 1..Len(tab[q]) :
                            ~IsExc(tab[q][j])
             j == CHOOSE e \in 1..Len(tab[i]) :
                      /\ IsExc(tab[i][e])
                      /\ \A q \in 1..(e - 1) : ~IsExc(tab[i][q])
         IN  tab[i][j].s[1]

\* _calc_photon_NEP(ch): ph is the table of the pairs _photon_NEP returns,
\* which numpy.split takes apart
split_photon_NEP(s, c, ph) ==
    [s EXCEPT !._NEP_ph_arr = [i \in Rows(c) |-> [j \in Cols(c) |-> ph[i][j][1]]],
              !._NEP_ph_arr_corr = [i \in Rows(c) |-> [j \in Cols(c) |-> ph[i][j][2]]]]

_calc_photon_NEP(s, c) ==
    split_photon_NEP(s, c,
        [i \in Rows(c) |-> [j \in Cols(c) |->
            _photon_NEP(Len(Chain(c, i, j)), emis(c, i, j), tran(c, i, j),
                        temp(c, i, j), c.corr)]])

\* the end of a step that builds one table and assigns it to one field:
\* an exception raised while the table was built ends the call
Assign(s, field, tab) ==
    IF Raises(tab) # "" THEN [s EXCEPT !.exc = Raises(tab)]
    ELSE [s EXCEPT ![field] = tab]

\* _calc_bolo_NEP(ch)
_calc_bolo_NEP(s, c) ==
    Assign(s, "_NEP_bolo_arr",
           [i \in Rows(c) |-> [j \in Cols(c) |-> _bolo_NEP(s._popt_arr[i][j].n, c.dets[j])]])

\* whether numpy.isin finds 'NA' in the table
AnyNA(tab) ==
    \E i \in 1..Len(tab) : \E j \in 1..Len(tab[i]) : tab[i][j] = Str(NA)

\* the readout NEP as a fraction of the photon and bolometer NEP
read_frac_NEP(read_frac, ph, bolo) ==
    sqrt(((1 + read_frac.n) * (1 + read_frac.n) - 1) * (Sq(ph) + Sq(bolo)))

\* the end of _calc_read_NEP(ch): NEP_read_arr is the table of what
\* _read_NEP returned
store_read_NEP(s, c, NEP_read_arr) ==
    IF Raises(NEP_read_arr) # "" THEN [s EXCEPT !.exc = Raises(NEP_read_arr)]
    ELSE IF AnyNA(NEP_read_arr)
    THEN [s EXCEPT !._NEP_read_arr =
             [i \in Rows(c) |-> [j \in Cols(c) |->
                 read_frac_NEP(c.dets[j].read_frac, s._NEP_ph_arr[i][j],
                               s._NEP_bolo_arr[i][j])]]]
    ELSE [s EXCEPT !._NEP_read_arr = NEP_read_arr]

\* _calc_read_NEP(ch)
_calc_read_NEP(s, c) ==
    store_read_NEP(s, c,
        [i \in Rows(c) |-> [j \in Cols(c) |-> _read_NEP(s._popt_arr[i][j].n, c.dets[j])]])

\* tot_NEP without the readout term
tot_NEP_no_read(ph, bolo, read) == sqrt(Sq(ph) + Sq(bolo))

\* numpy.sqrt(ph**2 + bolo**2 + read**2)
tot_NEP(ph, bolo, read) == sqrt(Sq(ph) + Sq(bolo) + Sq(read))

\* _calc_tot_NEP(ch)
_calc_tot_NEP(s, c) ==
    [s EXCEPT
        !._NEP = [i \in Rows(c) |-> [j \in Cols(c) |->
                     tot_NEP(s._NEP_ph_arr[i][j], s._NEP_bolo_arr[i][j],
                             s._NEP_read_arr[i][j])]],
        !._NEP_corr = [i \in Rows(c) |-> [j \in Cols(c) |->
                          tot_NEP(s._NEP_ph_arr_corr[i][j], s._NEP_bolo_arr[i][j],
                                  s._NEP_read_arr[i][j])]]]

\* x * y and x / y of values the model does not compute
Times(x, y) == Apply("*", <<x, y>>)
Over(x, y) == Apply("/", <<x, y>>)

\* noise.NET_from_NEP(NEP, freqs, prod(tran), opt_coup) * net_mgn, for one
\* observation and detector of _calc_NET
NET_from_NEP(c, i, j, nep) ==
    Times(Apply("NET_from_NEP",
                <<nep, Num(prod(tran(c, i, j))), Param("opt_coup")>>),
          Param("net_mgn"))

\* _calc_NET(ch)
_calc_NET(s, c) ==
    [s EXCEPT
        !._NET = [i \in Rows(c) |-> [j \in Cols(c) |-> NET_from_NEP(c, i, j, s._NEP[i][j])]],
        !._NET_corr =
            [i \in Rows(c) |-> [j \in Cols(c) |-> NET_from_NEP(c, i, j, s._NEP_corr[i][j])]]]

\* _Trj_over_Tcmb(freqs): the band average of phys.Trj_over_Tb
_Trj_over_Tcmb == Apply("Trj_over_Tb", <<Param("Tcmb")>>)

\* _calc_NET_RJ(ch)
_calc_NET_RJ(s, c) ==
    [s EXCEPT
        !._NET_RJ = [i \in Rows(c) |-> [j \in Cols(c) |-> Times(_Trj_over_Tcmb, s._NET[i][j])]],
        !._NET_corr_RJ =
            [i \in Rows(c) |-> [j \in Cols(c) |-> Times(_Trj_over_Tcmb, s._NET_corr[i][j])]]]

\* noise.NET_arr(net, ndet, yield)
NET_arr(net) == Apply("NET_arr", <<net, Param("ndet"), Param("yield")>>)

\* _calc_NET_arr(ch)
_calc_NET_arr(s, c) ==
    [s EXCEPT !._NET_arr = [i \in Rows(c) |-> [j \in Cols(c) |-> NET_arr(s._NET_corr[i][j])]]]

\* _calc_NET_arr_RJ(ch): the field it assigns is self._NET_arr
_calc_NET_arr_RJ(s, c) ==
    [s EXCEPT !._NET_arr = [i \in Rows(c) |-> [j \in Cols(c) |-> NET_arr(s._NET_corr_RJ[i][j])]]]

\* _calc_corr_deg(ch): both loops bind the name i, and the entry reads the
\* name j, which nothing binds
_calc_corr_deg(s, c) ==
    Assign(s, "_corr_deg", [i \in Rows(c) |-> [j \in Cols(c) |-> Exc("NameError")]])

\* an entry of _calc_map_depth and _calc_map_depth_RJ: it reads the field
\* of the array NET, then the name tel, which nothing binds
map_depth(net_arr) ==
    IF net_arr = Unset THEN Exc("AttributeError") ELSE Exc("NameError")

\* _calc_map_depth(ch)
_calc_map_depth(s, c) ==
    Assign(s, "_map_depth", [i \in Rows(c) |-> [j \in Cols(c) |-> map_depth(s._NET_arr)]])

\* _calc_map_depth_RJ(ch)
_calc_map_depth_RJ(s, c) ==
    Assign(s, "_map_depth_RJ", [i \in Rows(c) |-> [j \in Cols(c) |-> map_depth(s._NET_arr_RJ)]])

\* the fields the return statement of _sensitivity reads, in its order
Outputs ==
    <<"_tel_eff_arr", "_popt_arr", "_tel_rj_temp", "_sky_rj_temp",
      "_NEP_ph_arr", "_NEP_bolo_arr", "_NEP_read_arr", "_NEP", "_NET",
      "_NET_RJ", "_NET_arr", "_NET_arr_RJ", "_corr_deg", "_map_depth",
      "_map_depth_RJ">>

\* the return statement of _sensitivity(ch): reading a field nothing has
\* assigned raises AttributeError, and so does the call of lolist() on
\* self._map_depth, a method numpy arrays do not have
return_sensitivity(s) == [s EXCEPT !.exc = "AttributeError"]

\* the steps of _sensitivity(ch), in its order
Steps ==
    <<"_calc_popt", "_calc_rj_temp", "_calc_photon_NEP", "_calc_bolo_NEP",
      "_calc_read_NEP", "_calc_tot_NEP", "_calc_NET", "_calc_NET_RJ",
      "_calc_NET_arr", "_calc_NET_arr_RJ", "_calc_corr_deg",
      "_calc_map_depth", "_calc_map_depth_RJ", "return">>

\* _sensitivity(ch), one step further: step is the name of the step
_sensitivity(step, s, c) ==
    CASE step = "_calc_popt" -> _calc_popt(s, c)
      [] step = "_calc_rj_temp" -> _calc_rj_temp(s, c)
      [] step = "_calc_photon_NEP" -> _calc_photon_NEP(s, c)
      [] step = "_calc_bolo_NEP" -> _calc_bolo_NEP(s, c)
      [] step = "_calc_read_NEP" -> _calc_read_NEP(s, c)
      [] step = "_calc_tot_NEP" -> _calc_tot_NEP(s, c)
      [] step = "_calc_NET" -> _calc_NET(s, c)
      [] step = "_calc_NET_RJ" -> _calc_NET_RJ(s, c)
      [] step = "_calc_NET_arr" -> _calc_NET_arr(s, c)
      [] step = "_calc_NET_arr_RJ" -> _calc_NET_arr_RJ(s, c)
      [] step = "_calc_corr_deg" -> _calc_corr_deg(s, c)
      [] step = "_calc_map_depth" -> _calc_map_depth(s, c)
      [] step = "_calc_map_depth_RJ" -> _calc_map_depth_RJ(s, c)
      [] step = "return" -> return_sensitivity(s)

(***************************************************************************)
(* _opt_pow(ch).  Elements are counted from 0, as in the source: element k *)
(* of a chain is entry k + 1 of its sequence.                              *)
(***************************************************************************)
\* eff_arr: the transmissions of the chain, then a row of ones
eff_arr(tr) == tr \o <<1>>

\* cum_eff_det with the element's own transmission in the product
cum_eff_det_own(tr, k) == prod(From(eff_arr(tr), k))

\* cum_eff_det of element k: the efficiency towards the detector
cum_eff_det(tr, k) == prod(From(eff_arr(tr), k + 1))

\* the Python slice x[a:b], a < b
Slice(x, a, b) == SubSeq(x, a + 1, b)

\* cum_eff_sky with the entry of element k itself 1 instead of 0
cum_eff_sky_own(tr, k) ==
    IF k = 0 THEN <<1>>
    ELSE IF k = 1 THEN <<1, 1>>
    ELSE [m \in 1..(k - 1) |->
             IF m - 1 < k - 2 THEN prod(Slice(eff_arr(tr), m, k))
             ELSE eff_arr(tr)[m + 1]] \o <<1, 1>>

\* cum_eff_sky of element k: the efficiencies towards the sky of the
\* elements 0..k
cum_eff_sky(tr, k) ==
    IF k = 0 THEN <<0>>
    ELSE IF k = 1 THEN <<1, 0>>
    ELSE [m \in 1..(k - 1) |->
             IF m - 1 < k - 2 THEN prod(Slice(eff_arr(tr), m, k))
             ELSE eff_arr(tr)[m + 1]] \o <<1, 0>>

\* pows[k]: the power spectrum of element k
pows(tm, em, k) == bb_pow_spec(tm[k + 1], em[k + 1])

\* pow_out of element k: the power it sends to the detector
pow_out(tr, tm, em, bw, k) == trapz(pows(tm, em, k) * cum_eff_det(tr, k) * 1, bw)

\* eff_det_side_2[k] after the second loop: the band average
eff_det_side(tr, bw, k) == trapz(cum_eff_det(tr, k) * 1, bw) \div bw

\* pow_in of element k: the power that reaches it from the sky side
pow_in(tr, tm, em, bw, k) ==
    sum([m \in 1..(k + 1) |->
            trapz(pows(tm, em, m - 1) * cum_eff_sky(tr, k)[m] * 1, bw)])


\* _opt_table(): each list reshaped to one row per observation and detector,
\* then transposed to one row per element
Transposed(c, side) ==
    [k \in 1..Len(side[1][1]) |->
        [r \in 1..(c.nobs * c.ndet) |->
            side[((r - 1) \div c.ndet) + 1][((r - 1) % c.ndet) + 1][k]]]

_opt_table(s, c) ==
    [s EXCEPT !.ret = <<Transposed(c, s._pow_sky_side),
                        Transposed(c, s._pow_det_side),
                        Transposed(c, s._eff_det_side)>>]

\* the three lists of _opt_pow(ch): for every observation i and detector j,
\* one entry for each element of the chain
opt_pow_sides(s, c) ==
    [s EXCEPT
        !._pow_sky_side =
            [i \in Rows(c) |-> [j \in Cols(c) |->
                [e \in 1..Len(Chain(c, i, j)) |->
                    pow_in(tran(c, i, j), temp(c, i, j), emis(c, i, j), c.bw,
                           e - 1)]]],
        !._pow_det_side =
            [i \in Rows(c) |-> [j \in Cols(c) |->
                [e \in 1..Len(Chain(c, i, j)) |->
                    pow_out(tran(c, i, j), temp(c, i, j), emis(c, i, j), c.bw,
                            e - 1)]]],
        !._eff_det_side =
            [i \in Rows(c) |-> [j \in Cols(c) |->
                [e \in 1..Len(Chain(c, i, j)) |->
                    eff_det_side(tran(c, i, j), c.bw, e - 1)]]]]

\* _opt_pow(ch)
_opt_pow(s, c) == _opt_table(opt_pow_sides(s, c), c)

(***************************************************************************)
(* The channels and detectors the model calls Sensitivity with.            *)
(***************************************************************************)
\* sim.param("nobs") and sim.param("ndet") range over 1..MaxObs, 1..MaxDet
MaxObs == 2
MaxDet == 2

\* tel.param("site")
Sites == {SPACE, <<"s", "p", "a", "c", "e">>, <<"A", "T", "A", "C", "A", "M", "A">>}

\* the optics of the channel: none, or three elements
Optics == {<<>>, <<Element(3, 1, 4), Element(2, 1, 2), Element(5, 2, 1)>>}

\* the detectors: all parameters given; NEI and Flink not given; G, psat
\* and Flink not given; G and bolometer resistance not given; psat given,
\* and below, equal to or above the optical power from one chain to the
\* next; G holding the other sentinel
Detectors ==
    <<Detector(Num(4), Num(100000), Num(3), Num(2), Num(1), Num(5), Num(6),
               Num(2), Num(3), Num(1)),
      Detector(Num(4), Num(100000), Num(3), Num(2), Num(1), Num(5), Str(NA),
               Str(NA), Num(3), Num(1)),
      Detector(Str(NA), Str(NA), Num(3), Num(2), Num(1), Num(5), Str(NA),
               Num(2), Num(3), Num(1)),
      Detector(Str(NA), Num(100000), Num(3), Num(2), Num(1), Num(5), Num(6),
               Num(2), Str(NA), Num(2)),
      Detector(Str(NA), Num(562), Num(3), Num(2), Num(1), Num(5), Num(6),
               Num(2), Num(3), Num(1)),
      Detector(Str(BAND), Num(100000), Num(3), Num(2), Num(1), Num(5), Num(6),
               Num(2), Num(3), Num(1))>>

\* ch.det_arr.dets for n detectors: all detectors alike, or each detector
\* the one after its neighbour in the list above
DetArrays(n) ==
    {[j \in 1..n |-> Detectors[a]] : a \in 1..Len(Detectors)}
    \cup {[j \in 1..n |-> Detectors[((a + j - 2) % Len(Detectors)) + 1]] :
             a \in 1..Len(Detectors)}

Channel(site, infg, corr, nobs, ndet, bw, optics, dets) ==
    [site |-> site, infg |-> infg, corr |-> corr, nobs |-> nobs,
     ndet |-> ndet, bw |-> bw, optics |-> optics, dets |-> dets]

Channels ==
    {Channel(site, infg, corr, nobs, Len(dets), 2, optics, dets) :
        site \in Sites, infg \in BOOLEAN, corr \in BOOLEAN, nobs \in 1..MaxObs,
        optics \in Optics,
        dets \in UNION {DetArrays(n) : n \in 1..MaxDet}}

(***************************************************************************)
(* The state machine of the Sensitivity: the channel is given,             *)
(* _sensitivity(ch) runs step by step, and _opt_pow(ch) is called before   *)
(* it or after it has ended.                                               *)
(***************************************************************************)
SensInit ==
    /\ status = "unbuilt"
    /\ err = ""
    /\ kind = "none"
    /\ inp = NoInp
    /\ unit = 1
    /\ pmin = NoneV
    /\ pmax = NoneV
    /\ band_ids = NoBands
    /\ val = NoneV
    /\ avg = NoneV
    /\ med = NoneV
    /\ std = NoneV
    /\ mult_bands = "unset"
    /\ changed = FALSE
    /\ last = NoCall
    /\ ch \in Channels
    /\ sens = Sensitivity
    /\ pc = 0
    /\ chan = NoChan

\* the next step of _sensitivity(ch)
Step ==
    /\ pc < Len(Steps)
    /\ sens.exc = ""
    /\ sens.ret = <<>>
    /\ sens' = _sensitivity(Steps[pc + 1], sens, ch)
    /\ pc' = IF sens'.exc = "" THEN pc + 1 ELSE pc
    /\ UNCHANGED <<pvars, cvars, ch>>

\* a call of _opt_pow(ch), before _sensitivity(ch) is called or after an
\* exception has ended it
OptPow ==
    /\ pc = 0 \/ sens.exc # ""
    /\ sens.ret = <<>>
    /\ sens' = _opt_pow(sens, ch)
    /\ UNCHANGED <<pvars, cvars, ch, pc>>

SensNext == Step \/ OptPow

SensSpec == SensInit /\ [][SensNext]_vars

(***************************************************************************)
(* Notions the claims on the Sensitivity are stated with.                  *)
(***************************************************************************)
\* the steps of _sensitivity(ch) up to the one called name have completed
Done(name) == \E k \in 1..pc : Steps[k] = name

\* the observations and detectors of the channel
Obs == 1..ch.nobs
Dets == 1..ch.ndet

\* the telescope's site is space, in whatever case it is written
SpaceSite == Upper(ch.site) = SPACE

\* _calc_rj_temp split the chain of observation i and detector j after its
\* first n elements: the telescope efficiency is the product of the
\* transmissions from element n on, the telescope temperature is that of the
\* power of the elements from n on, the sky temperature that of the power
\* the first n elements send through the whole chain
SplitAfter(i, j, n) ==
    /\ sens._tel_eff_arr[i][j] = Num(prod(From(tran(ch, i, j), n)))
    /\ sens._tel_rj_temp[i][j] =
          _rj_temp(LenFrom(Len(Chain(ch, i, j)), n), From(emis(ch, i, j), n),
                   From(tran(ch, i, j), n), From(temp(ch, i, j), n), ch.bw,
                   prod(From(tran(ch, i, j), n)))
    /\ sens._sky_rj_temp[i][j] =
          _rj_temp(LenUpto(Len(Chain(ch, i, j)), n), Upto(emis(ch, i, j), n),
                   tran(ch, i, j), Upto(temp(ch, i, j), n), ch.bw,
                   prod(From(tran(ch, i, j), n)))

\* C11, as stated: the chain is split after 1 or 2 elements for a ground
\* site and after 3 or 4 for a space site, the larger number of each pair
\* exactly when infg is enabled
C11_GroundOneOrTwo ==
    Done("_calc_rj_temp") =>
        \A i \in Obs, j \in Dets :
            \E n \in (IF SpaceSite THEN {3, 4} ELSE {1, 2}) :
                /\ (n \in {2, 4}) <=> ch.infg
                /\ SplitAfter(i, j, n)

\* C11, amended: the chain is split after 1 or 3 elements for a space site
\* (a site whose name is "space" in any case) and after 2 or 4 for any other
\* site, the larger number of each pair exactly when infg is enabled
C11_SpaceOneOrThree ==
    Done("_calc_rj_temp") =>
        \A i \in Obs, j \in Dets :
            \E n \in (IF SpaceSite THEN {1, 3} ELSE {2, 4}) :
                /\ (n \in {3, 4}) <=> ch.infg
                /\ SplitAfter(i, j, n)

\* a space site written in lower case, infg enabled, and a chain of six
\* elements split after its third
C11_Witness ==
    /\ Done("_calc_rj_temp")
    /\ SpaceSite /\ ch.site # SPACE /\ ch.infg
    /\ Len(Chain(ch, 1, 1)) = 6
    /\ SplitAfter(1, 1, 3)
    /\ ~SplitAfter(1, 1, 4)

\* _opt_pow(ch) has returned
OptPowDone == sens.ret # <<>>

\* the elements of the chain of observation i and detector j, from 0
Elems(i, j) == 0..(Len(Chain(ch, i, j)) - 1)

RECURSIVE Between(_, _, _)
\* the product of the transmissions of the elements a..b of a chain, 1 when
\* there is none
Between(tr, a, b) == IF a > b THEN 1 ELSE tr[a + 1] * Between(tr, a + 1, b)

\* the column of observation i and detector j in a table _opt_pow returns
Column(i, j) == (i - 1) * ch.ndet + j

\* C12: the toward-detector efficiency of element k of a chain of L elements
\* is the product of the transmissions of the elements k+1..L-1, times the
\* terminal 1: it is 1 for the last element and leaves out the element's own
\* transmission.  The table _opt_pow returns holds it, the power an element
\* sends to the detector is its power spectrum times it, and the optical
\* power of _popt is the sum made with the same efficiencies.
C12_EffTowardDetector ==
    OptPowDone =>
        \A i \in Obs, j \in Dets : \A k \in Elems(i, j) :
            /\ sens._eff_det_side[i][j][k + 1] =
                  Between(tran(ch, i, j), k + 1, Len(Chain(ch, i, j)) - 1) * 1
            /\ k = Len(Chain(ch, i, j)) - 1 => sens._eff_det_side[i][j][k + 1] = 1
            /\ sens.ret[3][k + 1][Column(i, j)] = sens._eff_det_side[i][j][k + 1]
            /\ sens._pow_det_side[i][j][k + 1] =
                  ch.bw * bb_pow_spec(temp(ch, i, j)[k + 1], emis(ch, i, j)[k + 1])
                        * sens._eff_det_side[i][j][k + 1]
            /\ Done("_calc_popt") =>
                  sens._popt_arr[i][j] =
                      Num(sum([e \in 1..Len(Chain(ch, i, j)) |->
                                  ch.bw * bb_pow_spec(temp(ch, i, j)[e],
                                              emis(ch, i, j)[e]
                                              * sens._eff_det_side[i][j][e])]))

\* the chain of transmissions 0.9, 0.8, 1.0, in tenths: element 0 gets
\* 0.8 * 1.0 * 1, in hundredths, the last element gets 1, and the optical
\* power of the chain has been computed
C12_Witness ==
    /\ OptPowDone
    /\ Done("_calc_popt")
    /\ tran(ch, 1, 1) = <<9, 8, 10>>
    /\ sens._eff_det_side[1][1] = <<80, 10, 1>>

\* the toward-sky efficiency, at reference element k, of element m <= k
TowardSky(tr, k, m) == IF m = k THEN 0 ELSE Between(tr, m + 1, k - 1)

\* C13: at reference element k the toward-sky efficiency of an element
\* m < k is the product of the transmissions of the elements strictly
\* between m and k (1 when m = k - 1), and the entry of k itself is 0, so
\* the list of element 0 is the single entry 0; the power on the sky side
\* of k is the sum over the elements m < k of their power spectra times
\* these efficiencies, with nothing from k's own emission
C13_EffTowardSky ==
    OptPowDone =>
        \A i \in Obs, j \in Dets : \A k \in Elems(i, j) :
            /\ cum_eff_sky(tran(ch, i, j), k) =
                  [m \in 1..(k + 1) |-> TowardSky(tran(ch, i, j), k, m - 1)]
            /\ sens._pow_sky_side[i][j][k + 1] =
                  sum([m \in 1..k |->
                          ch.bw * bb_pow_spec(temp(ch, i, j)[m], emis(ch, i, j)[m])
                                * Between(tran(ch, i, j), m, k - 1)])
            /\ sens.ret[1][k + 1][Column(i, j)] = sens._pow_sky_side[i][j][k + 1]

\* a chain of six elements: at reference element 3 the efficiencies are
\* those of elements 0, 1 and 2 and then 0, and no power reaches element 0
\* from the sky side while some reaches element 3
C13_Witness ==
    /\ OptPowDone
    /\ tran(ch, 1, 1) = <<9, 8, 3, 2, 5, 10>>
    /\ cum_eff_sky(tran(ch, 1, 1), 3) = <<24, 3, 1, 0>>
    /\ cum_eff_sky(tran(ch, 1, 1), 0) = <<0>>
    /\ sens._pow_sky_side[1][1][1] = 0
    /\ sens._pow_sky_side[1][1][4] > 0

\* the step called name has been entered: it has completed, or it is the
\* step an exception ended
Entered(name) ==
    Done(name) \/ (sens.exc # "" /\ pc < Len(Steps) /\ Steps[pc + 1] = name)

\* every parameter of every detector of the channel is a number or "NA"
NumbersOrNA ==
    \A j \in Dets : \A x \in {ch.dets[j].g, ch.dets[j].psat, ch.dets[j].flink,
                              ch.dets[j].nei, ch.dets[j].bolo_r} :
        IsNumber(x) \/ x = Str(NA)

\* C14: an invocation of _sensitivity(ch) runs its steps in their order to
\* the return: no step ends it with an exception for reading a name or a
\* field nothing has written, and at the return every output is defined
C14_ReachesReturn ==
    NumbersOrNA =>
        /\ sens.exc = ""
        /\ pc = Len(Steps) => \A k \in 1..Len(Outputs) : sens[Outputs[k]] # Unset

\* C15: the array NET and the array NET in RJ units are two outputs: once
\* the RJ step is done the array NET is still the one made from the
\* per-detector NET, and the RJ array NET is the one made from the
\* per-detector NET in RJ units
C15_TwoArrayNETs ==
    Done("_calc_NET_arr_RJ") =>
        \A i \in Obs, j \in Dets :
            /\ sens._NET_arr # Unset
            /\ sens._NET_arr[i][j] = NET_arr(sens._NET_corr[i][j])
            /\ sens._NET_arr_RJ # Unset
            /\ sens._NET_arr_RJ[i][j] = NET_arr(sens._NET_corr_RJ[i][j])

\* C16: the correlation degradation of observation i and detector j is the
\* correlated NET of i and j over the NET of i and j
C16_CorrDegRatio ==
    Entered("_calc_corr_deg") =>
        /\ sens.exc = ""
        /\ \A i \in Obs, j \in Dets :
              sens._corr_deg[i][j] = Over(sens._NET_corr[i][j], sens._NET[i][j])

\* C17: the square of the total NEP is the sum of the squares of the
\* photon, bolometer and readout NEP, so the total is not below any of the
\* three; the same holds of the correlated total, made with the correlated
\* photon NEP and the same bolometer and readout NEP
C17_QuadratureSum ==
    Done("_calc_tot_NEP") =>
        \A i \in Obs, j \in Dets :
            /\ Sq(sens._NEP[i][j]) =
                  Sq(sens._NEP_ph_arr[i][j]) + Sq(sens._NEP_bolo_arr[i][j])
                  + Sq(sens._NEP_read_arr[i][j])
            /\ Sq(sens._NEP_corr[i][j]) =
                  Sq(sens._NEP_ph_arr_corr[i][j]) + Sq(sens._NEP_bolo_arr[i][j])
                  + Sq(sens._NEP_read_arr[i][j])
            /\ \A x \in {sens._NEP_ph_arr[i][j], sens._NEP_bolo_arr[i][j],
                         sens._NEP_read_arr[i][j]} :
                  /\ Sq(x) >= 0
                  /\ Sq(sens._NEP[i][j]) >= Sq(x)
            /\ \A x \in {sens._NEP_ph_arr_corr[i][j], sens._NEP_bolo_arr[i][j],
                         sens._NEP_read_arr[i][j]} :
                  /\ Sq(x) >= 0
                  /\ Sq(sens._NEP_corr[i][j]) >= Sq(x)

\* the three NEP of an observation and detector are all positive, and the
\* correlated total is above the total
C17_Witness ==
    /\ Done("_calc_tot_NEP")
    /\ \E i \in Obs, j \in Dets :
          /\ Sq(sens._NEP_ph_arr[i][j]) > 0
          /\ Sq(sens._NEP_bolo_arr[i][j]) > 0
          /\ Sq(sens._NEP_read_arr[i][j]) > 0
          /\ Sq(sens._NEP_corr[i][j]) > Sq(sens._NEP[i][j])

\* the readout NEP of detector j cannot be derived: its NEI or its
\* bolometer resistance is "NA"
NoBiasPoint(j) == ch.dets[j].nei = Str(NA) \/ ch.dets[j].bolo_r = Str(NA)

\* C18: the readout NEP of observation i and detector j is the fraction of
\* the photon and bolometer NEP exactly when the NEI or the bolometer
\* resistance of j is "NA"; every other detector keeps the readout NEP
\* derived from its bias point, whatever the other detectors of the channel
C18_FallbackPerDetector ==
    Done("_calc_read_NEP") =>
        \A i \in Obs, j \in Dets :
            sens._NEP_read_arr[i][j] =
                IF NoBiasPoint(j)
                THEN read_frac_NEP(ch.dets[j].read_frac, sens._NEP_ph_arr[i][j],
                                   sens._NEP_bolo_arr[i][j])
                ELSE _read_NEP(sens._popt_arr[i][j].n, ch.dets[j])

\* the bias power the claim C19 names, for optical power p and detector det
BiasPower(p, det) ==
    IF det.psat = Str(NA) THEN (det.psat_fact.n - 1) * p ELSE det.psat.n - p

\* C19: for optical power Popt and one detector, _read_NEP returns "NA"
\* when the NEI or the bolometer resistance is "NA"; otherwise, when psat is
\* "NA", the readout NEP of the bias power (psat_fact - 1) * Popt; otherwise
\* 0 when Popt >= psat and the readout NEP of the bias power psat - Popt
\* when Popt < psat.  The bias power is not negative when psat_fact >= 1.
\* When no detector of the channel lacks a bias point, the value is the
\* readout NEP of the step.
C19_ReadNEPHelper ==
    Done("_calc_popt") =>
        \A i \in Obs, j \in Dets :
            /\ _read_NEP(sens._popt_arr[i][j].n, ch.dets[j]) =
                  IF NoBiasPoint(j) THEN Str(NA)
                  ELSE IF ch.dets[j].psat # Str(NA)
                          /\ sens._popt_arr[i][j].n >= ch.dets[j].psat.n
                  THEN Num(0)
                  ELSE read_NEP(Num(BiasPower(sens._popt_arr[i][j].n, ch.dets[j])),
                                ch.dets[j].bolo_r, ch.dets[j].nei)
            /\ (ch.dets[j].psat = Str(NA) /\ ch.dets[j].psat_fact.n >= 1)
                  \/ (ch.dets[j].psat # Str(NA)
                      /\ sens._popt_arr[i][j].n < ch.dets[j].psat.n)
                  => BiasPower(sens._popt_arr[i][j].n, ch.dets[j]) >= 0
            /\ Done("_calc_read_NEP") /\ (\A d \in Dets : ~NoBiasPoint(d))
                  => sens._NEP_read_arr[i][j] =
                         _read_NEP(sens._popt_arr[i][j].n, ch.dets[j])

\* one channel with an explicit psat, the optical power of one chain equal
\* to it and that of another below it: the readout NEP is 0 for the first
\* and derived from the bias power psat - Popt for the second
C19_Witness ==
    /\ Done("_calc_read_NEP")
    /\ \E i \in Obs, j \in Dets :
          /\ ch.dets[j].psat = Num(sens._popt_arr[i][j].n)
          /\ sens._NEP_read_arr[i][j] = Num(0)
    /\ \E i \in Obs, j \in Dets :
          /\ IsNumber(ch.dets[j].psat)
          /\ sens._popt_arr[i][j].n < ch.dets[j].psat.n
          /\ sens._NEP_read_arr[i][j] =
                read_NEP(Num(ch.dets[j].psat.n - sens._popt_arr[i][j].n),
                         ch.dets[j].bolo_r, ch.dets[j].nei)

\* a parameter is given: it holds a number, not a sentinel
Given(x) == IsNumber(x)

\* C20: the bolometer NEP of observation i and detector j is the noise
\* model's, for the G that is given, else derived from the psat that is
\* given, else from psat_fact * Popt, and for the Flink that is given, else
\* derived from n, Tb and Tc; a parameter that holds a sentinel counts as
\* not given, so the G and the Flink handed to the noise model are numbers
C20_GByPrecedence ==
    Entered("_calc_bolo_NEP") =>
        /\ sens.exc = ""
        /\ \A i \in Obs, j \in Dets :
              /\ IsNumber(bolo_g(sens._popt_arr[i][j].n, ch.dets[j]))
              /\ sens._NEP_bolo_arr[i][j] =
                    bolo_NEP(IF Given(ch.dets[j].flink) THEN ch.dets[j].flink
                             ELSE Flink(ch.dets[j].n, ch.dets[j].tb, ch.dets[j].tc),
                             IF Given(ch.dets[j].g) THEN ch.dets[j].g
                             ELSE IF Given(ch.dets[j].psat)
                             THEN G(ch.dets[j].psat, ch.dets[j].n,
                                    ch.dets[j].tb, ch.dets[j].tc)
                             ELSE G(Num(ch.dets[j].psat_fact.n
                                        * sens._popt_arr[i][j].n),
                                    ch.dets[j].n, ch.dets[j].tb, ch.dets[j].tc),
                             ch.dets[j].tc)

(***************************************************************************)
(* Notions of the claims about a Parameter across constructions and        *)
(* changes.                                                                *)
(***************************************************************************)
\* the fields of the Parameter that stores st, declared as this one is
Fields(st) ==
    [val |-> st.val, avg |-> st.avg, med |-> st.med, std |-> st.std,
     mb |-> st.mb, lo |-> pmin, hi |-> pmax, u |-> unit]

\* two returned values are the same: numbers by their value, whether int or
\* float, every other value by its kind and content
SameValue(x, y) ==
    IF IsNumber(x) /\ IsNumber(y) THEN x.n = y.n ELSE x = y

\* two fetch results are the same triple
SameTriple(r, q) ==
    /\ Len(r) = 3 /\ Len(q) = 3
    /\ \A k \in 1..3 : SameValue(r[k], q[k])

\* the text holds the PDF marker, in any letter case
HasPDFMarker(lit) == Contains(Upper(lit), PDF)

\* the Parameter was constructed from a tuple (literal, dictionary), the
\* dictionary holding an entry and the literal no PDF marker
TupleNoPDF ==
    /\ status # "unbuilt" /\ ~changed /\ kind = "float"
    /\ inp.form = "tuple" /\ inp.dict.set /\ inp.dict.kv # <<>>
    /\ ~HasPDFMarker(inp.lit)

\* the Parameter agrees with the one that stores st: the same multi-band
\* flag and the same fetch result for every band
AgreesWith(st) ==
    /\ Built
    /\ mult_bands = st.mb
    /\ \A b \in 1..MaxBand :
          SameTriple(fetch(Self, b), fetch(Fields(st), b))

\* C21: a Parameter constructed from the tuple (literal, dictionary), the
\* dictionary not empty and the literal one that the plain construction
\* accepts and that holds no PDF marker, has the multi-band flag of the
\* Parameter constructed from the plain literal and, for every band, the
\* (average, median, std) in SI units that fetch returns for that one
C21_TupleAsPlain ==
    ( /\ TupleNoPDF
      /\ _store_float_str(inp.lit, unit).e = ""
      /\ _check_range(_store_float_str(inp.lit, unit).avg, pmin, pmax) ) =>
        AgreesWith(_store_float_str(inp.lit, unit))

\* the Distribution that backs the value of band b: the one the Parameter was
\* built from, or the one the band's PDF entry was resolved to; 0 when the
\* band's value is backed by none
Backing(b) ==
    IF val.t = "dist" THEN val.n
    ELSE IF val.t = "list" /\ b <= Len(val.l) /\ val.l[b].t = "dist"
    THEN val.l[b].n
    ELSE 0

\* x is what the sampler of Distribution d returns for nsample draws
DrawnFrom(x, d, nsample) ==
    IF nsample = 1 THEN x.t = "num" /\ x.n \in DistSupport(d)
    ELSE /\ x.t = "arr"
         /\ Len(x.a) = nsample
         /\ \A k \in 1..nsample : x.a[k] \in DistSupport(d)

\* C22: when the value of the requested band is backed by a Distribution,
\* the Parameter built from one or the band's entry resolved from a PDF
\* marker, sample returns what that Distribution's sampler draws for the
\* requested nsample, not a gaussian draw about its mean
C22_SampleDelegates ==
    (Built /\ last.op = "sample" /\ Backing(last.band_id) # 0) =>
        DrawnFrom(last.ret[1], Backing(last.band_id), last.nsample)

\* the Parameter holds numbers and no Distribution: one number, or one number
\* for each band
NumericOnly == val.t = "none" /\ (IsNumber(avg) \/ avg.t = "arr")

\* C23: for a scalar or per-band numeric Parameter the stored median equals
\* the stored average in every state, after the construction and after any
\* sequence of change calls, so get_med (the second value fetch returns)
\* gives the value a change that returned True committed
C23_MedianIsAverage ==
    (Built /\ kind = "float" /\ NumericOnly /\ mult_bands # "unset") =>
        /\ SameValue(med, avg)
        /\ \A b \in 1..MaxBand :
              Len(fetch(Self, b)) = 3 =>
                 SameValue(fetch(Self, b)[2], fetch(Self, b)[1])

\* the Parameter holds one of the sentinels as its average
HoldsSentinel == mult_bands = "false" /\ IsSentinel(avg)

\* the string the Parameter holds: the average of a sentinel, the value of a
\* categorical Parameter
HeldString == IF kind = "str" THEN val ELSE avg

\* C24: change with a str on a Parameter that holds a sentinel or is of
\* string kind replaces the held string and returns True when the new string
\* differs from it but for case, returns False and leaves it alone when
\* they are equal but for case, and never ends in an error
C24_StringChange ==
    [][( /\ ChangeStep
         /\ last'.new_avg.t = "str"
         /\ HoldsSentinel \/ kind = "str" ) =>
          IF Upper(HeldString.s) # Upper(last'.new_avg.s)
          THEN /\ last'.ret = <<BoolV(TRUE)>>
               /\ HeldString' = last'.new_avg
          ELSE /\ last'.ret = <<BoolV(FALSE)>>
               /\ HeldString' = HeldString]_vars

\* the moments of Distribution d, each times the factor u
Moments(d, u) ==
    <<_float(DistMean(d), u).r, _float(DistMedian(d), u).r,
      _float(DistStd(d), u).r>>

\* the variants of a float Parameter: one number, one number for each band,
\* a Distribution, a sentinel
IsScalarVariant == val.t = "none" /\ IsNumber(avg)
IsVectorVariant == val.t \in {"none", "list"} /\ avg.t = "arr"
IsDistVariant == val.t = "dist"
IsSentinelVariant == val.t = "none" /\ avg.t = "str"

\* C25: after the construction and after any sequence of change calls a
\* float Parameter is in exactly one of the four variants; an average that
\* is a string is exactly "NA" or "BAND", in upper case; and the fetch
\* result of a Parameter backed by a Distribution is the moments of the
\* Distribution that sample draws from, as the Distribution gives them or
\* in SI units
C25_OneVariant ==
    (Built /\ kind = "float") =>
        /\ Cardinality({k \in 1..4 :
                           \/ k = 1 /\ IsScalarVariant
                           \/ k = 2 /\ IsVectorVariant
                           \/ k = 3 /\ IsDistVariant
                           \/ k = 4 /\ IsSentinelVariant}) = 1
        /\ avg.t = "str" => avg.s \in float_str_vals
        /\ IsDistVariant =>
              \A b \in 1..MaxBand :
                 fetch(Self, b) \in {Moments(val.n, 1), Moments(val.n, unit)}

\* C26: after a construction that succeeded and any sequence of change
\* calls, every number of the stored average lies within the declared
\* [min, max], an absent bound being no limit: change does not commit a
\* value out of range
C26_AverageInRange ==
    Built => ~OutOfRange

(***************************************************************************)
(* The Channel class of src/src/channel.py, as far as its parameters go:   *)
(* the Parameter objects it holds in _param_dict and det_dict, the values  *)
(* evaluate() stores in _param_vals, and change_param and param.  Of the   *)
(* parameters of _store_param_dict the model holds four channel parameters *)
(* and three detector parameters.  A dict is the sequence of its           *)
(* <<key, value>> pairs in the order of insertion.  The tensors evaluate() *)
(* builds at its end (_calculate) are those of Chain above.                *)
(***************************************************************************)
\* the changes of a parameter one run makes are at most MaxChange
MaxChange == 2

\* key in d.keys()
Has(d, key) == Lookup(d, key) # 0

\* d[key], for a key d holds
Get(d, key) == d[Lookup(d, key)][2]

\* d[key] = x: the value of the key replaced, or the pair appended
Put(d, key, x) ==
    IF Has(d, key) THEN [d EXCEPT ![Lookup(d, key)] = <<key, x>>]
    ELSE Append(d, <<key, x>>)

NotBlank(c) == c # " "

\* name.replace(" ", "").strip().upper()
cap_name(name) == Upper(Strip(SelectSeq(name, NotBlank)))

\* a src.StandardParam: the name, unit, bounds and type of a parameter
StandardParam(name, u, lo, hi, k) ==
    [name |-> name, unit |-> u, min |-> lo, max |-> hi, type |-> k]

\* sim.std_params, keyed by the parameter's name in capitals without blanks
std_params ==
    << <<<<"N", "U", "M", "D", "E", "T", "P", "E", "R", "W", "A", "F", "E", "R">>, StandardParam(<<"N", "u", "m", " ", "D", "e", "t", " ", "p", "e", "r", " ", "W", "a", "f", "e", "r">>, 1, Num(0), NoneV, "int")>>,
       <<<<"N", "U", "M", "W", "A", "F", "P", "E", "R", "O", "T">>, StandardParam(<<"N", "u", "m", " ", "W", "a", "f", " ", "p", "e", "r", " ", "O", "T">>, 1, Num(0), NoneV, "int")>>,
       <<<<"N", "U", "M", "O", "T">>, StandardParam(<<"N", "u", "m", " ", "O", "T">>, 1, Num(0), NoneV, "int")>>,
       <<<<"P", "I", "X", "E", "L", "S", "I", "Z", "E">>, StandardParam(<<"P", "i", "x", "e", "l", " ", "S", "i", "z", "e">>, 10, Num(0), NoneV, "float")>>,
       <<<<"B", "A", "N", "D", "C", "E", "N", "T", "E", "R">>, StandardParam(<<"B", "a", "n", "d", " ", "C", "e", "n", "t", "e", "r">>, 10, Num(0), NoneV, "float")>>,
       <<<<"P", "S", "A", "T">>, StandardParam(<<"P", "s", "a", "t">>, 10, Num(0), NoneV, "float")>>,
       <<<<"G">>, StandardParam(<<"G">>, 10, Num(0), NoneV, "float")>> >>

\* a Parameter object: its name and the fields its methods read; e is the
\* fault that ended its construction, "" when none did
Object(name, st, u, lo, hi) ==
    [name |-> name, val |-> st.val, avg |-> st.avg, med |-> st.med,
     std |-> st.std, mb |-> st.mb, lo |-> lo, hi |-> hi, u |-> u,
     e |-> IF st.e # "" THEN st.e
           ELSE IF _check_range(st.avg, lo, hi) THEN "" ELSE "fatal"]

\* pr.Parameter(log, inp, std_param=sp)
Parameter(lit, sp) ==
    Object(sp.name, _store_param(sp.type, InpStr(lit), NoBands, sp.unit),
           sp.unit, sp.min, sp.max)

\* pr.Parameter(log, "NA", name=name): a float without unit or bounds
ParameterNA(name) ==
    Object(name, _store_param("float", InpStr(NA), NoBands, 1), 1, NoneV, NoneV)

\* no Parameter object: the construction did not come to make one
NoObject(e) ==
    [name |-> <<>>, val |-> NoneV, avg |-> NoneV, med |-> NoneV, std |-> NoneV,
     mb |-> "unset", lo |-> NoneV, hi |-> NoneV, u |-> 1, e |-> e]

\* Channel._store_param(name)
Channel_store_param(inp_dict, name) ==
    IF ~Has(std_params, cap_name(name)) THEN NoObject("fatal")
    ELSE IF ~Has(inp_dict, cap_name(name)) THEN NoObject("KeyError")
    ELSE Parameter(Get(inp_dict, cap_name(name)), Get(std_params, cap_name(name)))

\* {param.name: pid for pid, param in d.items()}
Names(d) == [k \in 1..Len(d) |-> <<d[k][2].name, d[k][1]>>]

\* the first fault among the constructions of the objects of a dict
FirstFault(d) ==
    IF \A k \in 1..Len(d) : d[k][2].e = "" THEN ""
    ELSE d[CHOOSE k \in 1..Len(d) :
              d[k][2].e # "" /\ \A m \in 1..(k - 1) : d[m][2].e = ""][2].e

\* Channel._store_param_dict(): the keys and the names of the channel's
\* and of the detectors' parameters
ParamKeys ==
    << <<<<"d", "e", "t", "_", "p", "e", "r", "_", "w", "a", "f">>, <<"N", "u", "m", " ", "D", "e", "t", " ", "p", "e", "r", " ", "W", "a", "f", "e", "r">>>>,
       <<<<"w", "a", "f", "_", "p", "e", "r", "_", "o", "t">>, <<"N", "u", "m", " ", "W", "a", "f", " ", "p", "e", "r", " ", "O", "T">>>>,
       <<<<"o", "t">>, <<"N", "u", "m", " ", "O", "T">>>>,
       <<<<"p", "i", "x", "_", "s", "z">>, <<"P", "i", "x", "e", "l", " ", "S", "i", "z", "e">>>> >>

DetKeys ==
    << <<<<"b", "c">>, <<"B", "a", "n", "d", " ", "C", "e", "n", "t", "e", "r">>>>,
       <<<<"p", "s", "a", "t">>, <<"P", "s", "a", "t">>>>,
       <<<<"g">>, <<"G">>>> >>

\* self._param_dict: a Parameter object for each key
_param_dict(inp_dict) ==
    [k \in 1..Len(ParamKeys) |->
        <<ParamKeys[k][1], Channel_store_param(inp_dict, ParamKeys[k][2])>>]

\* self.det_dict: a Parameter object for each key, the one for G holding
\* "NA" when inp_dict has no entry for it
det_dict(inp_dict) ==
    [k \in 1..Len(DetKeys) |->
        <<DetKeys[k][1],
          IF DetKeys[k][2] = <<"G">> /\ ~Has(inp_dict, <<"G">>)
          THEN ParameterNA(DetKeys[k][2])
          ELSE Channel_store_param(inp_dict, DetKeys[k][2])>>]

\* Channel.__init__(cam, inp_dict, band_file): the object's fields.  nexp is
\* sim.param("nexp"), sim_ndet is sim.param("ndet"), _bc is the band center
\* _store_band estimates from a band file; _param_vals does not exist until
\* evaluate() is called.  last is the last call made on the object, commit
\* the last change_param that returned True, nchange the number of calls of
\* change_param.
NoCommit == [set |-> FALSE, key |-> <<>>, new_val |-> NoneV, old |-> NoneV,
             evaluated |-> FALSE]

NoChanCall == [op |-> "none", param |-> <<>>, new_val |-> NoneV, ret |-> NoneV]

ChanStatus(e) == IF e = "" THEN "ok" ELSE IF e = "fatal" THEN "fatal" ELSE "raised"

\* the object with the dicts pd and dd that _store_param_dict made
ChanOf(inp_dict, pd, dd, band_file, nexp, sim_ndet) ==
    [status |-> ChanStatus(FirstFault(pd \o dd)),
     _inp_dict |-> inp_dict,
     _band_file |-> band_file,
     _bc |-> Num(8),
     _nexp |-> nexp,
     sim_ndet |-> sim_ndet,
     cam_name |-> <<"C", "a", "m">>,
     _param_dict |-> pd,
     det_dict |-> dd,
     _param_names |-> Names(pd),
     _det_param_names |-> Names(dd),
     _param_vals |-> [set |-> FALSE, kv |-> <<>>],
     nchange |-> 0,
     last |-> NoChanCall,
     commit |-> NoCommit]

Chan(inp_dict, band_file, nexp, sim_ndet) ==
    ChanOf(inp_dict, _param_dict(inp_dict), det_dict(inp_dict), band_file, nexp,
           sim_ndet)

\* Parameter.get_avg(band_id): the first value of fetch, or its exception
get_avg(P, band_id) == fetch(P, band_id)[1]

\* Parameter.get_med(band_id): the second value of fetch, or its exception
get_med(P, band_id) ==
    IF Len(fetch(P, band_id)) = 1 THEN fetch(P, band_id)[1]
    ELSE fetch(P, band_id)[2]

\* Channel.param(param): cam.param answers for a name _param_vals does not
\* hold; AttributeError before the first evaluate()
param(c, name) ==
    IF ~c._param_vals.set THEN Exc("AttributeError")
    ELSE IF Has(c._param_vals.kv, name) THEN Get(c._param_vals.kv, name)
    ELSE Apply("cam.param", <<Str(name)>>)

\* Channel._param_samp(param): band_id is self.param("band_id"), dev the
\* deviation a gaussian draw takes
_param_samp(c, P, band_id, dev) ==
    IF c._nexp = 1 THEN get_avg(P, band_id.n)
    ELSE sample(P, band_id.n, 1, NoneV, NoneV, FALSE, <<dev>>, <<0>>)

\* str(n) of a band id
StrOfInt(n) == <<CHOOSE d \in Digits : DigitVal(d) = n>>

\* int(x * y * z)
IntOfProduct(x, y, z) ==
    IF IsNumber(x) /\ IsNumber(y) /\ IsNumber(z) THEN Int_(x.n * y.n * z.n)
    ELSE Exc("TypeError")

\* the pairs up to the first whose value is an exception, that one left out
UpToFault(d) ==
    IF \A k \in 1..Len(d) : ~IsExc(d[k][2]) THEN d
    ELSE SubSeq(d, 1, (CHOOSE k \in 1..Len(d) :
                          IsExc(d[k][2]) /\ \A m \in 1..(k - 1) : ~IsExc(d[m][2])) - 1)

\* the first exception among the values of the pairs, "" when there is none
FaultOf(d) ==
    IF \A k \in 1..Len(d) : ~IsExc(d[k][2]) THEN ""
    ELSE d[CHOOSE k \in 1..Len(d) :
              IsExc(d[k][2]) /\ \A m \in 1..(k - 1) : ~IsExc(d[m][2])][2].s[1]

\* the entries of _param_vals for the parameters: the channel's are sampled,
\* the detectors' are the medians
ParamEntries(c, band_id, devs) ==
    [k \in 1..Len(c._param_dict) |->
        <<c._param_dict[k][1], _param_samp(c, c._param_dict[k][2], band_id, devs[k])>>]
    \o [k \in 1..Len(c.det_dict) |->
        <<c.det_dict[k][1], get_med(c.det_dict[k][2], 1)>>]

\* the ids _store_param_vals stores first
IdEntries(c) ==
    << <<<<"b", "a", "n", "d", "_", "i", "d">>, PyInt(Get(c._inp_dict, <<"B", "A", "N", "D", "I", "D">>))>>,
       <<<<"p", "i", "x", "_", "i", "d">>, PyInt(Get(c._inp_dict, <<"P", "I", "X", "E", "L", "I", "D">>))>>,
       <<<<"c", "h", "_", "n", "a", "m", "e">>, Str(c.cam_name \o StrOfInt(PyInt(Get(c._inp_dict, <<"B", "A", "N", "D", "I", "D">>)).n))>> >>

\* the assignments to _param_vals that _store_param_vals makes, in its
\* order: pe are those of the parameters; is_NA is the outcome of the test
\* sim.param("ndet") is "NA", an identity of two str objects
Assignments(c, pe, is_NA) ==
    IdEntries(c) \o pe
    \o << <<<<"n", "d", "e", "t">>, IntOfProduct(Get(pe, <<"d", "e", "t", "_", "p", "e", "r", "_", "w", "a", "f">>), Get(pe, <<"w", "a", "f", "_", "p", "e", "r", "_", "o", "t">>),
                                 Get(pe, <<"o", "t">>))>>,
          <<<<"c", "d", "e", "t">>, IF is_NA
                    THEN IntOfProduct(Get(pe, <<"d", "e", "t", "_", "p", "e", "r", "_", "w", "a", "f">>),
                                      Get(pe, <<"w", "a", "f", "_", "p", "e", "r", "_", "o", "t">>), Get(pe, <<"o", "t">>))
                    ELSE c.sim_ndet>> >>
    \o (IF c._band_file THEN << <<<<"b", "c">>, c._bc>> >> ELSE <<>>)
    \o << <<<<"a", "p", "_", "e", "f", "f">>, NoneV>>, <<<<"e", "d", "g", "e", "_", "t", "a", "p">>, NoneV>> >>

\* the dict a sequence of assignments leaves
RECURSIVE DictOf(_)
DictOf(a) ==
    IF a = <<>> THEN <<>>
    ELSE Put(DictOf(SubSeq(a, 1, Len(a) - 1)), a[Len(a)][1], a[Len(a)][2])

\* the end of _store_param_vals: a are its assignments, and an exception
\* ends it with the assignments made before it
stored_param_vals(c, a) ==
    [c EXCEPT !._param_vals = [set |-> TRUE, kv |-> DictOf(UpToFault(a))],
              !.last = [op |-> "evaluate", param |-> <<>>, new_val |-> NoneV,
                        ret |-> IF FaultOf(a) = "" THEN NoneV ELSE Exc(FaultOf(a))],
              !.commit = IF FaultOf(a) = "" /\ c.commit.set
                         THEN [c.commit EXCEPT !.evaluated = TRUE]
                         ELSE c.commit]

\* Channel._store_param_vals()
_store_param_vals(c, devs, is_NA) ==
    stored_param_vals(c, Assignments(c, ParamEntries(c, IdEntries(c)[1][2], devs),
                                     is_NA))

\* Channel.evaluate(): the parameter values are stored; the detector array,
\* the observations and the tensors that follow hold no parameter
evaluate(c, devs, is_NA) == _store_param_vals(c, devs, is_NA)

\* the dict and the key change_param finds for param: a key of _param_dict
\* or det_dict, else a name of _param_names or _det_param_names
Resolve(c, name) ==
    IF ~Has(c._param_dict, name) /\ ~Has(c.det_dict, name)
    THEN IF Has(c._param_names, name)
         THEN [dict |-> "_param_dict", key |-> Get(c._param_names, name)]
         ELSE IF Has(c._det_param_names, name)
         THEN [dict |-> "det_dict", key |-> Get(c._det_param_names, name)]
         ELSE [dict |-> "none", key |-> <<>>]
    ELSE IF Has(c._param_dict, name)
    THEN [dict |-> "_param_dict", key |-> name]
    ELSE [dict |-> "det_dict", key |-> name]

\* the Parameter object after a call of change that returned chg
ChangedObject(P, chg) == [P EXCEPT !.avg = chg.avg, !.std = chg.std]

\* the Parameter object of a key, in either dict
ObjectOf(c, key) ==
    IF Has(c._param_dict, key) THEN Get(c._param_dict, key) ELSE Get(c.det_dict, key)

\* the end of change_param: r is what Resolve found, chg what the object's
\* change returned
changed_param(c, name, new_val, r, chg) ==
    [c EXCEPT
       !._param_dict = IF r.dict = "_param_dict"
                       THEN Put(c._param_dict, r.key,
                                ChangedObject(Get(c._param_dict, r.key), chg))
                       ELSE c._param_dict,
       !.det_dict = IF r.dict = "det_dict"
                    THEN Put(c.det_dict, r.key,
                             ChangedObject(Get(c.det_dict, r.key), chg))
                    ELSE c.det_dict,
       !.status = IF chg.ret = LogErr THEN "fatal" ELSE c.status,
       !.nchange = c.nchange + 1,
       !.last = [op |-> "change_param", param |-> name, new_val |-> new_val,
                 ret |-> chg.ret],
       !.commit = IF chg.ret = BoolV(TRUE)
                  THEN [set |-> TRUE, key |-> r.key, new_val |-> new_val,
                        old |-> param(c, r.key), evaluated |-> FALSE]
                  ELSE c.commit]

\* Channel.change_param(param, new_val): the log line reads
\* self.param("ch_name") first
change_param(c, name, new_val) ==
    IF IsExc(param(c, <<"c", "h", "_", "n", "a", "m", "e">>))
    THEN [c EXCEPT !.nchange = c.nchange + 1,
                   !.last = [op |-> "change_param", param |-> name,
                             new_val |-> new_val, ret |-> param(c, <<"c", "h", "_", "n", "a", "m", "e">>)]]
    ELSE IF Resolve(c, name).dict = "none"
    THEN [c EXCEPT !.status = "fatal", !.nchange = c.nchange + 1,
                   !.last = [op |-> "change_param", param |-> name,
                             new_val |-> new_val, ret |-> LogErr]]
    ELSE changed_param(c, name, new_val, Resolve(c, name),
                       change(ObjectOf(c, Resolve(c, name).key), new_val, NoneV, 1))

(***************************************************************************)
(* The state machine of the Channel: the object is constructed, and        *)
(* evaluate() and change_param() are called in any order.                  *)
(***************************************************************************)
\* the channel's dictionary of channel.txt, with and without an entry for G
InpDict(band_id, g) ==
    << <<<<"B", "A", "N", "D", "I", "D">>, band_id>>, <<<<"P", "I", "X", "E", "L", "I", "D">>, <<"1">>>>,
       <<<<"N", "U", "M", "D", "E", "T", "P", "E", "R", "W", "A", "F", "E", "R">>, <<"2">>>>, <<<<"N", "U", "M", "W", "A", "F", "P", "E", "R", "O", "T">>, <<"1">>>>, <<<<"N", "U", "M", "O", "T">>, <<"1">>>>,
       <<<<"P", "I", "X", "E", "L", "S", "I", "Z", "E">>, <<"7", "+", "/", "-", "2">>>>, <<<<"B", "A", "N", "D", "C", "E", "N", "T", "E", "R">>, <<"9">>>>, <<<<"P", "S", "A", "T">>, <<"4">>>> >>
    \o (IF g THEN << <<<<"G">>, <<"6">>>> >> ELSE <<>>)

\* the channels constructed, by (BANDID, whether G is given, whether there
\* is a band file, nexp, the simulation's ndet)
Configs ==
    {<<<<"1">>, FALSE, FALSE, 1, Str(NA)>>,
     <<<<"2">>, TRUE, TRUE, 1, Int_(3)>>,
     <<<<"1">>, TRUE, FALSE, 2, Str(NA)>>,
     <<<<"2">>, FALSE, TRUE, 2, Int_(3)>>}

Chans == {Chan(InpDict(cf[1], cf[2]), cf[3], cf[4], cf[5]) : cf \in Configs}

\* the param arguments of change_param: the keys and the names of the
\* parameters, and a name the channel does not know
ParamArgs ==
    {<<"d", "e", "t", "_", "p", "e", "r", "_", "w", "a", "f">>, <<"w", "a", "f", "_", "p", "e", "r", "_", "o", "t">>, <<"o", "t">>, <<"p", "i", "x", "_", "s", "z">>, <<"b", "c">>, <<"p", "s", "a", "t">>, <<"g">>,
     <<"N", "u", "m", " ", "D", "e", "t", " ", "p", "e", "r", " ", "W", "a", "f", "e", "r">>, <<"N", "u", "m", " ", "W", "a", "f", " ", "p", "e", "r", " ", "O", "T">>, <<"N", "u", "m", " ", "O", "T">>, <<"P", "i", "x", "e", "l", " ", "S", "i", "z", "e">>,
     <<"B", "a", "n", "d", " ", "C", "e", "n", "t", "e", "r">>, <<"P", "s", "a", "t">>, <<"G">>, <<"D", "u", "x">>}

\* the new_val arguments of change_param
NewVals == {Num(3), Int_(3), Str(NA)}

\* the deviations the draws of one evaluate() take, one for each channel
\* parameter; no draw is made for a single realization
Devs(c) ==
    IF c._nexp = 1 THEN {[k \in 1..Len(c._param_dict) |-> 0]}
    ELSE [1..Len(c._param_dict) -> Deviates]

\* the outcomes of sim.param("ndet") is "NA": never true of a number, and
\* for the str it is the identity of two objects, which the interpreter decides
IsNAOutcomes(c) == IF c.sim_ndet = Str(NA) THEN BOOLEAN ELSE {FALSE}

ChanInit ==
    /\ status = "unbuilt"
    /\ err = ""
    /\ kind = "none"
    /\ inp = NoInp
    /\ unit = 1
    /\ pmin = NoneV
    /\ pmax = NoneV
    /\ band_ids = NoBands
    /\ val = NoneV
    /\ avg = NoneV
    /\ med = NoneV
    /\ std = NoneV
    /\ mult_bands = "unset"
    /\ changed = FALSE
    /\ last = NoCall
    /\ ch = NoChannel
    /\ sens = Sensitivity
    /\ pc = 0
    /\ chan \in Chans

\* a call of evaluate()
Evaluate ==
    /\ chan.status = "ok"
    /\ \E devs \in Devs(chan), is_NA \in IsNAOutcomes(chan) :
          chan' = evaluate(chan, devs, is_NA)
    /\ UNCHANGED <<pvars, svars>>

\* a call of change_param(param, new_val)
ChangeParam(name, new_val) ==
    /\ chan.status = "ok"
    /\ chan.nchange < MaxChange
    /\ chan' = change_param(chan, name, new_val)
    /\ UNCHANGED <<pvars, svars>>

ChanNext ==
    \/ Evaluate
    \/ \E name \in ParamArgs, new_val \in NewVals : ChangeParam(name, new_val)

ChanSpec == ChanInit /\ [][ChanNext]_vars

(***************************************************************************)
(* Notions the claim on the Channel is stated with.                        *)
(***************************************************************************)
\* the key of the parameter the last change_param that returned True changed
Committed == chan.commit.key

\* the value that change_param was given, in the SI units of its parameter
CommittedSI == to_SI(chan.commit.new_val, ObjectOf(chan, Committed).u)

\* C27: for a channel with one experiment realization, after change_param(p,
\* v) returned True, for p a key or a display name of a channel parameter or
\* of a detector parameter, param(p) returns the old value until evaluate()
\* is called, and the SI value of v once it has been called
C27_ChangeTakesEffect ==
    (chan._nexp = 1 /\ chan.commit.set) =>
        IF chan.commit.evaluated
        THEN SameValue(param(chan, Committed), CommittedSI)
        ELSE param(chan, Committed) = chan.commit.old

====
